---------------------------- MODULE Spec2Model ----------------------------
(***************************************************************************)
(* Model of the MCP Wizard discovery pipeline: ResearchService (job        *)
(* registry, discoverMCPServers, deduplicateAndMerge) with the Redis cache *)
(* helpers and the catalog upserts it calls.                               *)
(*                                                                         *)
(* Execution model: one Node.js event loop.  A macrotask (an HTTP request, *)
(* an I/O completion, a timer) runs only when the microtask queue is       *)
(* empty; promise continuations run from the microtask queue in FIFO       *)
(* order.  A chain of continuations started by one I/O completion runs     *)
(* with nothing interleaved, so it is one action.                          *)
(***************************************************************************)
EXTENDS Integers, Sequences, FiniteSets, TLC

(***************************************************************************)
(* Bounds of the model.                                                    *)
(***************************************************************************)
MaxJobs == 2        \* number of startResearchJob calls
MaxItems == 2       \* length of a provider's search result
MaxResultsBound == 2 \* largest maxResults a caller passes
MaxHours == 1       \* how many retention-length clock steps are taken
MaxMerge == 2       \* length of the lists handed to deduplicateAndMerge alone
MaxCalls == 2       \* number of stand-alone client or analyzer calls
MaxConfigs == 1     \* number of createConfig calls
MaxUpdates == 2     \* number of updateConfig calls

(***************************************************************************)
(* Program constants.                                                      *)
(***************************************************************************)
JobRetention == 3600000   \* ms, delay of the clean-up timer
CacheTTL == 3600          \* s, TTL of the cached discovery result
AnalyzerMinStars == 5     \* RepositoryMetadataExtractor's star floor
ConfidencePercent == 30   \* the threshold 0.3 of the confidence, in percent
RateLimitCeiling == 5000  \* GitHubAPIClient's initial rateLimitRemaining

(***************************************************************************)
(* Values.                                                                 *)
(***************************************************************************)
Undefined == <<"undefined">>      \* an unset string-valued property
NoTime == -1                      \* an unset Date-valued property

Min(a, b) == IF a < b THEN a ELSE b

\* Error objects thrown by the collaborators; `${error}` is name + ": " + message.
RedisGetError == [isError |-> TRUE, name |-> "Error", message |-> <<"read ECONNRESET">>]
RedisSetError == [isError |-> TRUE, name |-> "Error", message |-> <<"The client is closed">>]
ClientCreateError == [isError |-> TRUE, name |-> "TypeError", message |-> <<"Invalid URL">>]

ErrorToString(e) == <<e.name, ": ">> \o e.message

\* MCPServer records.  tags and readme are sequences (of tags, of characters).
\* sourceUrl is the repository's html_url or the package's npmjs.com page;
\* packageName is the npm package name (for a repository the name in its
\* package.json, which it need not have).
MCPServer(id, source, popularity, tags, readme) ==
  [id |-> id, source |-> source,
   sourceUrl |-> IF source = "github" THEN <<"https://github.com/">> \o id
                 ELSE <<"https://www.npmjs.com/package/", id[2]>>,
   packageName |-> IF source = "npm" THEN <<id[2]>> ELSE Undefined,
   popularity |-> popularity, tags |-> tags,
   readme |-> readme, verified |-> FALSE, createdAt |-> "Date"]

(***************************************************************************)
(* config/redis.ts: values are stored as JSON text.                        *)
(***************************************************************************)
\* JSON.stringify of one server: a Date becomes its ISO string.
ServerToJSON(s) == [s EXCEPT !.createdAt = "ISOString"]

JSONStringify(list) == <<"json", [i \in 1..Len(list) |-> ServerToJSON(list[i])]>>

JSONParse(text) == text[2]

\* getCache: null when the key is absent (or expired), else the parsed value.
GetCache(store, key, time) ==
  IF key \in DOMAIN store /\ time < store[key].expiresAt
    THEN [isNull |-> FALSE, value |-> JSONParse(store[key].value)]
    ELSE [isNull |-> TRUE, value |-> <<>>]

\* setCache with a ttl: setEx(key, ttl, JSON.stringify(value)).
SetCacheMutSkipEmpty(store, key, list, ttl, time) ==
  IF list = <<>> THEN store
  ELSE [k \in DOMAIN store \cup {key} |->
          IF k = key THEN [value |-> JSONStringify(list), expiresAt |-> time + ttl * 1000]
                     ELSE store[k]]
SetCache(store, key, list, ttl, time) ==
  [k \in DOMAIN store \cup {key} |->
     IF k = key THEN [value |-> JSONStringify(list), expiresAt |-> time + ttl * 1000]
                ELSE store[k]]

\* `if (cached)`: null is falsy, every array (the empty one too) is truthy.
CachedMutNonEmpty(c) == ~c.isNull /\ Len(c.value) > 0
Truthy(c) == ~c.isNull

(***************************************************************************)
(* ResearchService.deduplicateAndMerge / mergeGitHubAndNpmData.            *)
(***************************************************************************)
\* Array.from(new Set(seq)): first occurrences, in order.
RECURSIVE Dedup(_)
Dedup(seq) ==
  IF seq = <<>> THEN <<>>
  ELSE LET front == Dedup(SubSeq(seq, 1, Len(seq) - 1))
           last == seq[Len(seq)]
       IN IF \E i \in 1..Len(front) : front[i] = last THEN front
          ELSE Append(front, last)

\* a || b || 0 on numbers.
FirstTruthyMutMax(a, b) == IF a > b THEN a ELSE b
FirstTruthy(a, b) == IF a # 0 THEN a ELSE IF b # 0 THEN b ELSE 0

MergeMutSpreadNpm(githubServer, npmServer) ==
  [npmServer EXCEPT
     !.popularity = FirstTruthy(githubServer.popularity, npmServer.popularity),
     !.tags = Dedup(githubServer.tags \o npmServer.tags),
     !.readme = IF Len(githubServer.readme) > Len(npmServer.readme)
                  THEN githubServer.readme ELSE npmServer.readme]
MergeGitHubAndNpmData(githubServer, npmServer) ==
  [githubServer EXCEPT
     !.popularity = FirstTruthy(githubServer.popularity, npmServer.popularity),
     !.tags = Dedup(githubServer.tags \o npmServer.tags),
     !.readme = IF Len(githubServer.readme) > Len(npmServer.readme)
                  THEN githubServer.readme ELSE npmServer.readme]

\* A JS Map keyed by server id, kept as the sequence of its values in
\* insertion order: set() on a present key replaces in place.
MapHas(m, id) == \E i \in 1..Len(m) : m[i].id = id
MapGet(m, id) == m[CHOOSE i \in 1..Len(m) : m[i].id = id]
MapSet(m, server) ==
  IF MapHas(m, server.id)
    THEN [i \in 1..Len(m) |-> IF m[i].id = server.id THEN server ELSE m[i]]
    ELSE Append(m, server)

RECURSIVE AddGitHub(_, _)
AddGitHub(m, githubServers) ==
  IF githubServers = <<>> THEN m
  ELSE AddGitHub(MapSet(m, Head(githubServers)), Tail(githubServers))

RECURSIVE AddNpm(_, _)
AddNpm(m, npmServers) ==
  IF npmServers = <<>> THEN m
  ELSE LET npmServer == Head(npmServers)
           next == IF ~MapHas(m, npmServer.id) THEN MapSet(m, npmServer)
                   ELSE IF MapGet(m, npmServer.id).source = "github"
                           /\ npmServer.source = "npm"
                          THEN MapSet(m, MergeGitHubAndNpmData(MapGet(m, npmServer.id), npmServer))
                          ELSE m
       IN AddNpm(next, Tail(npmServers))

DedupMutConcat(githubServers, npmServers) == githubServers \o npmServers
DeduplicateAndMerge(githubServers, npmServers) ==
  AddNpm(AddGitHub(<<>>, githubServers), npmServers)

(***************************************************************************)
(* discoverMCPServers lines 85-87: stable sort by popularity, descending,  *)
(* then slice(0, maxResults).                                              *)
(***************************************************************************)
RECURSIVE InsertByPopularityMutUnstable(_, _)
InsertByPopularityMutUnstable(sorted, s) ==
  IF sorted = <<>> THEN <<s>>
  ELSE IF Head(sorted).popularity > s.popularity
         THEN <<Head(sorted)>> \o InsertByPopularityMutUnstable(Tail(sorted), s)
         ELSE <<s>> \o sorted

RECURSIVE InsertByPopularity(_, _)
InsertByPopularity(sorted, s) ==
  IF sorted = <<>> THEN <<s>>
  ELSE IF Head(sorted).popularity >= s.popularity
         THEN <<Head(sorted)>> \o InsertByPopularity(Tail(sorted), s)
         ELSE <<s>> \o sorted

RECURSIVE SortByPopularity(_)
SortByPopularity(list) ==
  IF list = <<>> THEN <<>>
  ELSE InsertByPopularity(SortByPopularity(SubSeq(list, 1, Len(list) - 1)), list[Len(list)])

Slice(list, n) == SubSeq(list, 1, Min(n, Len(list)))

RankAndLimit(list, maxResults) == Slice(SortByPopularity(list), maxResults)


(***************************************************************************)
(* Inputs: what the two providers and the analyzers can answer.            *)
(***************************************************************************)
\* Items of a GitHub search response (full_name = owner/name); mcp tells
\* whether the analyzer finds MCP signal in the repository's files, fetchOk
\* whether the analyzer's metadata request for the repository succeeds.
RepoPool ==
  { [owner |-> "acme", name |-> "a", stars |-> 50, forks |-> 3, mcp |-> TRUE, fetchOk |-> TRUE],
    [owner |-> "acme", name |-> "b", stars |-> 8, forks |-> 20, mcp |-> TRUE, fetchOk |-> TRUE],
    [owner |-> "acme", name |-> "c", stars |-> 4, forks |-> 0, mcp |-> TRUE, fetchOk |-> TRUE],
    [owner |-> "acme", name |-> "d", stars |-> 30, forks |-> 0, mcp |-> FALSE, fetchOk |-> TRUE],
    [owner |-> "acme", name |-> "e", stars |-> 40, forks |-> 0, mcp |-> TRUE, fetchOk |-> FALSE] }

\* The repository acme/a as a later search finds it, with more stars.
RepoLaterPool ==
  { [owner |-> "acme", name |-> "a", stars |-> 60, forks |-> 3, mcp |-> TRUE,
     fetchOk |-> TRUE] }

\* Results of PackageMetadataExtractor.analyzePackage for the packages found;
\* confidence is a number in [0, 1], held here in thousandths.
AnalysisPool ==
  { [packageName |-> "a-mcp", isMCP |-> TRUE, confidence |-> 800, downloads |-> 0],
    [packageName |-> "b", isMCP |-> FALSE, confidence |-> 200, downloads |-> 7],
    [packageName |-> "c-mcp", isMCP |-> TRUE, confidence |-> 300, downloads |-> 120],
    [packageName |-> "d-mcp", isMCP |-> TRUE, confidence |-> 600, downloads |-> 50] }

\* Sequences without repetition over a pool, of length at most n.
SeqsUpTo(pool, n) ==
  UNION { {q \in [1..k -> pool] : \A i, m \in 1..k : i # m => q[i] # q[m]} :
          k \in 0..n }

\* ResearchOptions after the defaults of discoverMCPServers are applied.
Queries == {"mcp"}
OptionSet ==
  [query : Queries, maxResults : 1..MaxResultsBound, minStars : {5},
   includeForks : BOOLEAN]

\* The options of the runs with several jobs: two cache keys, and two
\* option records that share a key and differ in includeForks.
JobOptionSet ==
  { o \in [query : Queries, maxResults : 1..2, minStars : {5}, includeForks : BOOLEAN] :
      o.maxResults = 2 => ~o.includeForks }

\* The scopes the model is explored in: several concurrent jobs over
\* one-item provider answers, and one job over longer answers.
JobsScope ==
  [jobs |-> MaxJobs, items |-> 1, options |-> JobOptionSet,
   repos |-> {r \in RepoPool : r.name \in {"a", "b"}},
   analyses |-> {a \in AnalysisPool : a.packageName = "a-mcp"}]
DiscoverScope ==
  [jobs |-> 1, items |-> MaxItems, options |-> OptionSet,
   repos |-> RepoPool, analyses |-> AnalysisPool]

\* Two jobs that find the same repository with different star counts.
CatalogScope ==
  [jobs |-> MaxJobs, items |-> 1,
   options |-> {o \in JobOptionSet : o.maxResults = 1 /\ ~o.includeForks},
   repos |-> {r \in RepoPool \cup RepoLaterPool : r.name = "a"},
   analyses |-> {a \in AnalysisPool : a.packageName = "a-mcp"}]

Suffixes == {"x7", "k2"}    \* Math.random().toString(36).substr(2, 9)

(***************************************************************************)
(* RepositoryMetadataExtractor.analyzeRepository, as far as the pipeline   *)
(* sees it: no server (null, here the empty sequence) for a repository     *)
(* under the star floor, without MCP signal or whose fetch failed.         *)
(***************************************************************************)
AnalyzeRepository(repo) ==
  IF ~repo.fetchOk \/ repo.stars < AnalyzerMinStars \/ ~repo.mcp THEN <<>>
  ELSE <<MCPServer(<<repo.owner, "/", repo.name>>, "github", repo.stars,
                   <<"mcp">>, <<"r">>)>>

\* PackageMetadataExtractor.analysisToMCPServer.
AnalysisToMCPServer(analysis) ==
  MCPServer(<<"npm:", analysis.packageName>>, "npm", analysis.downloads,
            <<"npm", "mcp">>, <<"#", "i">>)

(***************************************************************************)
(* ResearchService.searchGitHub: filter, slice, analyze, keep non-null.    *)
(***************************************************************************)
RECURSIVE Flatten(_)
Flatten(seqs) == IF seqs = <<>> THEN <<>> ELSE Head(seqs) \o Flatten(Tail(seqs))

RepoPasses(repo, minStars, includeForks) ==
  /\ ~(repo.stars < minStars)
  /\ ~(~includeForks /\ repo.forks > repo.stars * 2)

SearchGitHubMutAbort(items, maxResults, minStars, includeForks) ==
  LET Passes(r) == RepoPasses(r, minStars, includeForks)
      kept == SelectSeq(items, Passes)
      candidates == Slice(kept, maxResults)
  IN IF \E i \in 1..Len(candidates) : ~candidates[i].fetchOk THEN <<>>
     ELSE Flatten([i \in 1..Len(candidates) |-> AnalyzeRepository(candidates[i])])
SearchGitHub(items, maxResults, minStars, includeForks) ==
  LET Passes(r) == RepoPasses(r, minStars, includeForks)
      kept == SelectSeq(items, Passes)
      candidates == Slice(kept, maxResults)
  IN Flatten([i \in 1..Len(candidates) |-> AnalyzeRepository(candidates[i])])

(***************************************************************************)
(* PackageMetadataExtractor.analyzePackage and analyzeMCPIndicators.  The  *)
(* indicators are found with toLowerCase() and includes(), so the strings  *)
(* they look at are spelled out character by character.                    *)
(***************************************************************************)
\* The characters of the strings the registry answers with, and of the URLs
\* analyzeRepository(url) is called with.
Chars(s) ==
  CASE s = "fs-mcp-server" ->
         <<"f", "s", "-", "m", "c", "p", "-", "s", "e", "r", "v", "e", "r">>
    [] s = "mcp-x" -> <<"m", "c", "p", "-", "x">>
    [] s = "model-context-kit" ->
         <<"m", "o", "d", "e", "l", "-", "c", "o", "n", "t", "e", "x", "t",
           "-", "k", "i", "t">>
    [] s = "left-pad" -> <<"l", "e", "f", "t", "-", "p", "a", "d">>
    [] s = "mcp-broken" ->
         <<"m", "c", "p", "-", "b", "r", "o", "k", "e", "n">>
    [] s = "mcp-model-context" ->
         <<"m", "c", "p", "-", "m", "o", "d", "e", "l", "-", "c", "o", "n",
           "t", "e", "x", "t">>
    [] s = "An MCP server for file access" ->
         <<"A", "n", " ", "M", "C", "P", " ", "s", "e", "r", "v", "e", "r",
           " ", "f", "o", "r", " ", "f", "i", "l", "e", " ", "a", "c", "c",
           "e", "s", "s">>
    [] s = "model context tools" ->
         <<"m", "o", "d", "e", "l", " ", "c", "o", "n", "t", "e", "x", "t",
           " ", "t", "o", "o", "l", "s">>
    [] s = "pads strings" ->
         <<"p", "a", "d", "s", " ", "s", "t", "r", "i", "n", "g", "s">>
    [] s = "" -> <<>>
    [] s = "mcp" -> <<"m", "c", "p">>
    [] s = "mcp-server" ->
         <<"m", "c", "p", "-", "s", "e", "r", "v", "e", "r">>
    [] s = "model context protocol" ->
         <<"m", "o", "d", "e", "l", " ", "c", "o", "n", "t", "e", "x", "t",
           " ", "p", "r", "o", "t", "o", "c", "o", "l">>
    [] s = "cli" -> <<"c", "l", "i">>
    [] s = "@modelcontextprotocol/sdk" ->
         <<"@", "m", "o", "d", "e", "l", "c", "o", "n", "t", "e", "x", "t",
           "p", "r", "o", "t", "o", "c", "o", "l", "/", "s", "d", "k">>
    [] s = "fastmcp" -> <<"f", "a", "s", "t", "m", "c", "p">>
    [] s = "lodash" -> <<"l", "o", "d", "a", "s", "h">>
    [] s = "https://github.com/acme/a" ->
         <<"h", "t", "t", "p", "s", ":", "/", "/", "g", "i", "t", "h", "u",
           "b", ".", "c", "o", "m", "/", "a", "c", "m", "e", "/", "a">>
    [] s = "https://github.com/acme/a.git" ->
         <<"h", "t", "t", "p", "s", ":", "/", "/", "g", "i", "t", "h", "u",
           "b", ".", "c", "o", "m", "/", "a", "c", "m", "e", "/", "a", ".",
           "g", "i", "t">>
    [] s = "https://gitlab.com/acme/a" ->
         <<"h", "t", "t", "p", "s", ":", "/", "/", "g", "i", "t", "l", "a",
           "b", ".", "c", "o", "m", "/", "a", "c", "m", "e", "/", "a">>
    [] s = "https://github.com/acme" ->
         <<"h", "t", "t", "p", "s", ":", "/", "/", "g", "i", "t", "h", "u",
           "b", ".", "c", "o", "m", "/", "a", "c", "m", "e">>

UpperCase == <<"A", "B", "C", "D", "E", "F", "G", "H", "I", "J", "K", "L", "M",
               "N", "O", "P", "Q", "R", "S", "T", "U", "V", "W", "X", "Y", "Z">>
LowerCase == <<"a", "b", "c", "d", "e", "f", "g", "h", "i", "j", "k", "l", "m",
               "n", "o", "p", "q", "r", "s", "t", "u", "v", "w", "x", "y", "z">>

\* String.prototype.toLowerCase and String.prototype.includes.
ToLowerCase(text) ==
  [i \in 1..Len(text) |->
     IF \E k \in 1..Len(UpperCase) : UpperCase[k] = text[i]
       THEN LowerCase[CHOOSE k \in 1..Len(UpperCase) : UpperCase[k] = text[i]]
       ELSE text[i]]
Includes(text, pattern) ==
  \E i \in 0..(Len(text) - Len(pattern)) :
     SubSeq(text, i + 1, i + Len(pattern)) = pattern
LowerIncludes(s, pattern) == Includes(ToLowerCase(Chars(s)), pattern)

Mcp == <<"m", "c", "p">>
Model == <<"m", "o", "d", "e", "l">>
Context == <<"c", "o", "n", "t", "e", "x", "t">>
ModelContext == Model \o <<" ">> \o Context
ModelContextProtocol ==
  ModelContext \o <<" ", "p", "r", "o", "t", "o", "c", "o", "l">>
AtModelContextProtocol ==
  <<"@">> \o Model \o Context \o <<"p", "r", "o", "t", "o", "c", "o", "l">>

\* What the registry knows of a package: the keywords of the latest version
\* and of the package document, the description analyzeMCPIndicators reads
\* (the version's, else the package's, else ''), the names of all the
\* dependencies of the latest version, the repository field, whether the
\* package was modified in the last six months, last month's downloads, and
\* whether the metadata and the download-stats requests succeed.
Package(name, versionKeywords, packageKeywords, description, dependencies, repository, recent, downloads, infoOk, statsOk) ==
  [packageName |-> name, versionKeywords |-> versionKeywords,
   packageKeywords |-> packageKeywords, description |-> description,
   dependencies |-> dependencies, repository |-> repository,
   recent |-> recent, downloads |-> downloads, infoOk |-> infoOk,
   statsOk |-> statsOk]

GitHubRepository == "git+https://github.com/acme/fs-mcp.git"
OtherRepository == "https://gitlab.com/acme/kit"

PackagePool ==
  { Package("fs-mcp-server", <<>>, <<>>, "An MCP server for file access", {}, "",
            recent, downloads, TRUE, TRUE) :
      recent \in BOOLEAN, downloads \in {0, 5000} }
  \cup
  { Package("mcp-x", <<>>, <<>>, "", {}, GitHubRepository, TRUE, 150, TRUE, TRUE),
    Package("mcp-x", <<>>, <<>>, "", {}, OtherRepository, TRUE, 5000, TRUE, TRUE),
    Package("model-context-kit", <<"mcp">>, <<"mcp", "cli">>, "model context tools",
            {"@modelcontextprotocol/sdk", "lodash"}, OtherRepository, FALSE, 150,
            TRUE, FALSE),
    Package("left-pad", <<"cli">>, <<>>, "pads strings", {"lodash"}, "", TRUE,
            5000, TRUE, TRUE),
    Package("mcp-broken", <<"mcp">>, <<>>, "An MCP server for file access", {},
            GitHubRepository, TRUE, 150, FALSE, TRUE),
    Package("mcp-model-context", <<"mcp", "mcp-server", "model context protocol">>,
            <<>>, "An MCP server for file access",
            {"@modelcontextprotocol/sdk", "fastmcp"}, GitHubRepository, TRUE, 5000,
            TRUE, TRUE) }

\* NpmRegistryClient.extractGitHubUrl: null (here "") unless the repository
\* field matches /github\.com\/([^\/]+)\/([^\/\.]+)/.
ExtractGitHubUrl(pkg) ==
  IF pkg.repository = GitHubRepository THEN "https://github.com/acme/fs-mcp"
  ELSE ""

\* getDownloadEstimate: a placeholder that returns 0 for every package.
GetDownloadEstimate(pkg) == 0

\* NpmRegistryClient.getDownloadStats(...).downloads: 0 when the request fails.
DownloadStats(pkg) == IF pkg.statsOk THEN pkg.downloads ELSE 0

SetToSeq(set) ==
  CHOOSE q \in [1..Cardinality(set) -> set] : \A e \in set : \E i \in DOMAIN q : q[i] = e

\* The score is a JavaScript number; it is an integer until the multiplication
\* by 0.7, so it is held here in tenths of a point (score * 10), which is exact.
DownloadBonus(downloads) ==
  IF downloads > 1000 THEN 50 ELSE IF downloads > 100 THEN 20 ELSE 0

StalePenaltyMutTwice(score, recent) == IF recent THEN score ELSE (score * 49) \div 100
StalePenalty(score, recent) == IF recent THEN score ELSE (score * 7) \div 10

VerdictMutExclusive(confidence) == confidence > ConfidencePercent * 10
Verdict(confidence) == confidence >= ConfidencePercent * 10

AnalyzeMCPIndicators(pkg) ==
  LET KeywordMatches(k) == LowerIncludes(k, Mcp) \/ LowerIncludes(k, ModelContextProtocol)
      DepMatches(d) == LowerIncludes(d, AtModelContextProtocol) \/ LowerIncludes(d, Mcp)
      keywords == pkg.versionKeywords \o pkg.packageKeywords
      mcpKeywords == Len(SelectSeq(keywords, KeywordMatches))
      mcpDeps == Len(SelectSeq(SetToSeq(pkg.dependencies), DepMatches))
      name == (IF LowerIncludes(pkg.packageName, Mcp) THEN 250 ELSE 0)
              + (IF LowerIncludes(pkg.packageName, Model)
                    /\ LowerIncludes(pkg.packageName, Context) THEN 150 ELSE 0)
      keyword == IF mcpKeywords > 0 THEN Min(250, mcpKeywords * 100) ELSE 0
      description ==
        IF LowerIncludes(pkg.description, Mcp)
           \/ LowerIncludes(pkg.description, ModelContextProtocol) THEN 200
        ELSE IF LowerIncludes(pkg.description, ModelContext) THEN 100 ELSE 0
      deps == IF mcpDeps > 0 THEN Min(150, mcpDeps * 80) ELSE 0
      repository == IF ExtractGitHubUrl(pkg) # "" THEN 50 ELSE 0
      additive == name + keyword + description + deps + repository
      score == StalePenalty(additive, pkg.recent) + DownloadBonus(GetDownloadEstimate(pkg))
      confidence == Min(score, 1000)
  IN [isMCP |-> Verdict(confidence), confidence |-> confidence]

\* analyzePackage: the analysis of the package, or the basic analysis of the
\* catch branch when a metadata request fails (its metadata has no downloads,
\* which analysisToMCPServer reads as 0).
AnalyzePackage(pkg) ==
  IF ~pkg.infoOk
    THEN [packageName |-> pkg.packageName, isMCP |-> FALSE, confidence |-> 0,
          downloads |-> 0]
    ELSE LET mcpAnalysis == AnalyzeMCPIndicators(pkg)
         IN [packageName |-> pkg.packageName, isMCP |-> mcpAnalysis.isMCP,
             confidence |-> mcpAnalysis.confidence, downloads |-> DownloadStats(pkg)]

\* analyzeSearchResults: one analysis for each package of the search result.
AnalyzeSearchResults(packages) ==
  [i \in 1..Len(packages) |-> AnalyzePackage(packages[i])]

(***************************************************************************)
(* ResearchService.searchNpm: keep analyses with isMCP and confidence at   *)
(* least 0.3, convert them.                                                *)
(***************************************************************************)
SearchNpm(analyses) ==
  LET Qualifies(a) == a.isMCP /\ a.confidence >= ConfidencePercent * 10
      kept == SelectSeq(analyses, Qualifies)
  IN [i \in 1..Len(kept) |-> AnalysisToMCPServer(kept[i])]


(***************************************************************************)
(* prisma.mCPServer.upsert as saveDiscoveredServers calls it: update       *)
(* rewrites the content fields, create writes every field.                 *)
(***************************************************************************)
\* The row prisma writes for the create branch of the upsert.
CreatedRow(server) ==
  [id |-> server.id, source |-> server.source,
   sourceUrl |-> server.sourceUrl, packageName |-> server.packageName,
   popularity |-> server.popularity, tags |-> server.tags,
   readme |-> server.readme, verified |-> server.verified]

UpsertMutKeepOld(store, server, time) ==
  IF server.id \in DOMAIN store THEN store
  ELSE [k \in DOMAIN store \cup {server.id} |->
          IF k = server.id
            THEN [id |-> server.id, source |-> server.source,
                  sourceUrl |-> server.sourceUrl, packageName |-> server.packageName,
                  popularity |-> server.popularity, tags |-> server.tags,
                  readme |-> server.readme, verified |-> server.verified]
            ELSE store[k]]
UpsertMutReplace(store, server, time) ==
  [k \in DOMAIN store \cup {server.id} |->
     IF k = server.id THEN CreatedRow(server) ELSE store[k]]
Upsert(store, server, time) ==
  IF server.id \in DOMAIN store
    THEN [store EXCEPT ![server.id] =
            [@ EXCEPT !.popularity = server.popularity, !.tags = server.tags,
                      !.readme = server.readme]]
    ELSE [k \in DOMAIN store \cup {server.id} |->
            IF k = server.id THEN CreatedRow(server) ELSE store[k]]

(***************************************************************************)
(* State.                                                                  *)
(***************************************************************************)
VARIABLES
  now,          \* Date.now(), ms
  redisClient,  \* config/redis.ts: whether the module's client exists
  jobs,         \* the ResearchJob objects, by creation order (object identity)
  activeJobs,   \* ResearchService.activeJobs: job id -> ResearchJob object
  run,          \* per job: the locals of its runResearchJob/discoverMCPServers call
  microtasks,   \* the promise-continuation queue
  timers,       \* pending setTimeout clean-ups
  cache,        \* Redis: key -> [value, expiresAt]
  catalog,      \* the mCPServer table: id -> row
  statusLog,    \* history: every value assigned to a job's status, in order
  submitted,    \* history: what each startResearchJob caller got back and saw
  mergeIn,      \* input of a stand-alone deduplicateAndMerge call
  mergeOut,     \* its output
  githubClient, \* GitHubAPIClient: rateLimitRemaining, rateLimitReset
  call,         \* the last stand-alone client or analyzer call: what was asked,
                \* the requests it sent, how it ended
  userConfigs,     \* the user_configs table: id -> row
  configVersions,  \* the config_versions table, rows in insertion order
  keychain,        \* the system keychain: the accounts that hold a secret
  configOps        \* the createConfig and updateConfig calls: where each
                   \* stands, its locals, how it ended

vars == <<now, redisClient, jobs, activeJobs, run, microtasks, timers, cache,
          catalog, statusLog, submitted, mergeIn, mergeOut, githubClient, call,
          userConfigs, configVersions, keychain, configOps>>
configVars == <<userConfigs, configVersions, keychain, configOps>>

NoError == [isError |-> FALSE, name |-> "", message |-> <<>>]

\* GitHubAPIClient as constructed (lines 55-57), and no stand-alone call yet.
NewClient == [rateLimitRemaining |-> RateLimitCeiling, rateLimitReset |-> 0]
NoCall == [op |-> "none", calls |-> 0]
NoMerge == [github |-> <<>>, npm |-> <<>>, done |-> FALSE]

JobRefs == 1..Len(jobs)

\* `research:${query}:${maxResults}:${minStars}`
CacheKeyMutWithForks(options) ==
  <<"research", options.query, options.maxResults, options.minStars, options.includeForks>>
CacheKey(options) == <<"research", options.query, options.maxResults, options.minStars>>

\* `job_${Date.now()}_${random}`
JobId(time, suffix) == <<"job", time, suffix>>

\* getResearchJobStatus: the registered object, or null (here "null").
GetResearchJobStatus(jobId) ==
  IF jobId \in DOMAIN activeJobs THEN jobs[activeJobs[jobId]].status ELSE "null"

Init ==
  /\ now = 0
  /\ redisClient = FALSE
  /\ jobs = <<>>
  /\ activeJobs = <<>>
  /\ run = <<>>
  /\ microtasks = <<>>
  /\ timers = {}
  /\ cache = <<>>
  /\ catalog = <<>>
  /\ statusLog = <<>>
  /\ submitted = <<>>
  /\ mergeIn = NoMerge
  /\ mergeOut = <<>>
  /\ githubClient = NewClient
  /\ call = NoCall
  /\ userConfigs = <<>>
  /\ configVersions = <<>>
  /\ keychain = {}
  /\ configOps = <<>>

(***************************************************************************)
(* runResearchJob lines 320-339: what the job runner does once its         *)
(* discoverMCPServers call has settled.                                    *)
(***************************************************************************)
\* job.error = error instanceof Error ? error.message : 'Unknown error'
ErrorMessageMutUnknown(e) == <<"Unknown error">>
ErrorMessage(e) == IF e.isError THEN e.message ELSE <<"Unknown error">>

SettledJobMutNoCompletedAt(job, disc, time) ==
  IF disc.kind = "resolved"
    THEN [job EXCEPT !.status = "completed", !.results = disc.value,
                     !.completedAt = time]
    ELSE [job EXCEPT !.status = "failed", !.error = ErrorMessage(disc.error)]
SettledJobMutKeepRunning(job, disc, time) ==
  IF disc.kind = "resolved"
    THEN [job EXCEPT !.status = "completed", !.results = disc.value,
                     !.completedAt = time]
    ELSE [job EXCEPT !.error = ErrorMessage(disc.error), !.completedAt = time]
SettledJob(job, disc, time) ==
  IF disc.kind = "resolved"
    THEN [job EXCEPT !.status = "completed", !.results = disc.value,
                     !.completedAt = time]
    ELSE [job EXCEPT !.status = "failed", !.error = ErrorMessage(disc.error),
                     !.completedAt = time]

CleanupDelay == JobRetention

\* The job j settles with discover outcome disc: record fields, status
\* history and the clean-up timer.
Settle(j, disc) ==
  /\ jobs' = [jobs EXCEPT ![j] = SettledJob(@, disc, now)]
  /\ statusLog' = [statusLog EXCEPT ![j] = Append(@, SettledJob(jobs[j], disc, now).status)]
  /\ timers' = timers \cup {[job |-> j, id |-> jobs[j].id, due |-> now + CleanupDelay]}

Resolved(list) == [kind |-> "resolved", value |-> list, error |-> NoError]
Rejected(e) == [kind |-> "rejected", value |-> <<>>, error |-> e]
Unsettled == [kind |-> "pending", value |-> <<>>, error |-> NoError]


Token(kind, j) == [kind |-> kind, job |-> j]

MapPut(map, key, value) ==
  [k \in DOMAIN map \cup {key} |-> IF k = key THEN value ELSE map[k]]
MapDelete(map, key) == [k \in DOMAIN map \ {key} |-> map[k]]

\* query: options.query || 'MCP server'
JobQuery(options) == IF options.query = "" THEN "MCP server" ELSE options.query

(***************************************************************************)
(* startResearchJob, with everything it runs before it returns: the job    *)
(* record, runResearchJob up to its await, discoverMCPServers up to its    *)
(* await of getCache, getCache up to its await of client.get.  When        *)
(* getRedisClient throws (no client yet and createClient fails) getCache   *)
(* is rejected without I/O and the continuation is already queued.  The    *)
(* caller's own continuation is queued when startResearchJob returns.      *)
(***************************************************************************)
\* Lines 286 and 315: the values status takes before the first await.
NewJobStatusMutNoRunning == <<"pending">>
NewJobStatus == <<"pending", "running">>

\* The continuations queued when startResearchJob returns: the caller's, and
\* before it discover's when getCache was rejected without I/O.  The run is
\* not awaited (line 295).
SubmitTokensMutAwaitRun(j, created) ==
  IF created THEN <<>> ELSE <<[kind |-> "discoverResume", job |-> j]>>
SubmitTokens(j, created) ==
  IF created THEN <<[kind |-> "submitReturn", job |-> j]>>
  ELSE <<[kind |-> "discoverResume", job |-> j], [kind |-> "submitReturn", job |-> j]>>

StartResearchJob(options, suffix, clientOk, maxJobs) ==
  LET j == Len(jobs) + 1
      jobId == JobId(now, suffix)
      assigned == NewJobStatus
      job == [id |-> jobId, status |-> assigned[Len(assigned)],
              query |-> JobQuery(options), results |-> <<>>,
              error |-> Undefined, startedAt |-> now, completedAt |-> NoTime]
      created == redisClient \/ clientOk
  IN /\ microtasks = <<>>
     /\ Len(jobs) < maxJobs
     /\ jobs' = Append(jobs, job)
     /\ activeJobs' = MapPut(activeJobs, jobId, j)
     /\ statusLog' = Append(statusLog, assigned)
     /\ redisClient' = created
     /\ run' = Append(run,
          [pc |-> IF created THEN "cacheGet" ELSE "getCacheRejected",
           options |-> options, githubThrew |-> FALSE, npmThrew |-> FALSE,
           githubServers |-> <<>>, npmServers |-> <<>>, sorted |-> <<>>, idx |-> 0, savedCount |-> 0,
           hit |-> FALSE, providerCalls |-> 0,
           disc |-> Unsettled])
     /\ microtasks' = SubmitTokens(j, created)
     /\ submitted' = Append(submitted, [returned |-> FALSE, id |-> jobId, seen |-> "none"])
     /\ UNCHANGED <<now, timers, cache, catalog, mergeIn, mergeOut, githubClient, call,
            configVars>>

(***************************************************************************)
(* Microtasks.                                                             *)
(***************************************************************************)
\* discoverMCPServers resumes at line 60 with getCache rejected: the await
\* is outside the try, so discover rejects with that error.
DiscoverResume ==
  /\ microtasks # <<>>
  /\ Head(microtasks).kind = "discoverResume"
  /\ LET j == Head(microtasks).job
     IN /\ run' = [run EXCEPT ![j].pc = "settled",
                              ![j].disc = Rejected(ClientCreateError)]
        /\ microtasks' = Append(Tail(microtasks), Token("runResume", j))
  /\ UNCHANGED <<now, redisClient, jobs, activeJobs, timers, cache, catalog,
                 statusLog, submitted, mergeIn, mergeOut, githubClient, call,
                 configVars>>

\* The caller of startResearchJob resumes with the job id and looks the job up.
SubmitReturn ==
  /\ microtasks # <<>>
  /\ Head(microtasks).kind = "submitReturn"
  /\ LET j == Head(microtasks).job
     IN submitted' = [submitted EXCEPT ![j].returned = TRUE,
                                       ![j].seen = GetResearchJobStatus(jobs[j].id)]
  /\ microtasks' = Tail(microtasks)
  /\ UNCHANGED <<now, redisClient, jobs, activeJobs, run, timers, cache, catalog,
                 statusLog, mergeIn, mergeOut, githubClient, call, configVars>>

\* runResearchJob resumes at line 320 with discover's settled promise.
RunResume ==
  /\ microtasks # <<>>
  /\ Head(microtasks).kind = "runResume"
  /\ LET j == Head(microtasks).job
     IN /\ Settle(j, run[j].disc)
        /\ run' = [run EXCEPT ![j].pc = "done"]
  /\ microtasks' = Tail(microtasks)
  /\ UNCHANGED <<now, redisClient, activeJobs, cache, catalog, submitted,
                 mergeIn, mergeOut, githubClient, call, configVars>>

(***************************************************************************)
(* Macrotasks: I/O completions.  Each runs the continuations it triggers   *)
(* up to the next I/O of the same call.                                    *)
(***************************************************************************)
\* client.get answers (getCache lines 62-68, discover lines 62-72).
CacheGetDone(j, ok) ==
  /\ microtasks = <<>>
  /\ run[j].pc = "cacheGet"
  /\ LET cached == GetCache(cache, CacheKey(run[j].options), now)
     IN IF ~ok
          THEN /\ run' = [run EXCEPT ![j].pc = "done", ![j].disc = Rejected(RedisGetError)]
               /\ Settle(j, Rejected(RedisGetError))
          ELSE IF Truthy(cached)
            THEN /\ run' = [run EXCEPT ![j].pc = "done", ![j].hit = TRUE,
                                       ![j].disc = Resolved(cached.value)]
                 /\ Settle(j, Resolved(cached.value))
            ELSE /\ run' = [run EXCEPT ![j].pc = "search", ![j].providerCalls = 2]
                 /\ UNCHANGED <<jobs, statusLog, timers, configVars>>
  /\ UNCHANGED <<now, redisClient, activeJobs, microtasks, cache, catalog,
                 submitted, mergeIn, mergeOut, githubClient, call, configVars>>

\* Both branches of the Promise.allSettled at line 69 have ended.  A branch
\* whose search call threw has caught the error (lines 152 and 187) and
\* returned no servers; a failed branch counts as no servers and leaves the
\* other branch's servers alone (lines 75-76).  Discover then merges, ranks
\* and starts saving, or with nothing to save goes on to setCache (lines
\* 82-93).
SettledBranchesMutFailFast(githubThrew, github, npmThrew, npm) ==
  [github |-> IF githubThrew \/ npmThrew THEN <<>> ELSE github,
   npm |-> IF githubThrew \/ npmThrew THEN <<>> ELSE npm]
SettledBranches(githubThrew, github, npmThrew, npm) ==
  [github |-> IF githubThrew THEN <<>> ELSE github,
   npm |-> IF npmThrew THEN <<>> ELSE npm]

SearchDone(j, githubThrew, items, npmThrew, analyses) ==
  /\ microtasks = <<>>
  /\ run[j].pc = "search"
  /\ githubThrew => items = <<>>
  /\ npmThrew => analyses = <<>>
  /\ LET o == run[j].options
         github == SearchGitHub(items, o.maxResults, o.minStars, o.includeForks)
         npm == SearchNpm(analyses)
         settled == SettledBranches(githubThrew, github, npmThrew, npm)
         sorted == RankAndLimit(DeduplicateAndMerge(settled.github, settled.npm),
                                o.maxResults)
     IN run' = [run EXCEPT ![j].githubThrew = githubThrew, ![j].npmThrew = npmThrew,
                           ![j].githubServers = github, ![j].npmServers = npm,
                           ![j].sorted = sorted, ![j].idx = 1,
                           ![j].pc = IF sorted = <<>> THEN "cacheSet" ELSE "save"]
  /\ UNCHANGED <<now, redisClient, jobs, activeJobs, microtasks, timers, cache,
                 catalog, statusLog, submitted, mergeIn, mergeOut, githubClient, call,
                 configVars>>

\* One prisma upsert of saveDiscoveredServers answers; a failure is caught
\* at line 429 and the loop goes on.
\* Where the loop of lines 380-432 stands after the upsert of entry idx of
\* len entries has answered: at the next entry, or past the last one.
AfterUpsertMutBreak(idx, len, ok) == IF ~ok \/ idx = len THEN "cacheSet" ELSE "save"
AfterUpsert(idx, len, ok) == IF idx = len THEN "cacheSet" ELSE "save"

UpsertDone(j, ok) ==
  /\ microtasks = <<>>
  /\ run[j].pc = "save"
  /\ catalog' = IF ok THEN Upsert(catalog, run[j].sorted[run[j].idx], now) ELSE catalog
  /\ run' = [run EXCEPT ![j].idx = @ + 1,
                        ![j].savedCount = IF ok THEN @ + 1 ELSE @,
                        ![j].pc = AfterUpsert(run[j].idx, Len(run[j].sorted), ok)]
  /\ UNCHANGED <<now, redisClient, jobs, activeJobs, microtasks, timers, cache,
                 statusLog, submitted, mergeIn, mergeOut, githubClient, call,
                 configVars>>

\* `Failed to discover MCP servers: ${error}` (line 101)
WrapDiscoverError(e) ==
  [isError |-> TRUE, name |-> "Error",
   message |-> <<"Failed to discover MCP servers: ">> \o ErrorToString(e)]

\* discoverMCPServers has returned or thrown: its locals are gone.
Returned(r, disc) ==
  [r EXCEPT !.pc = "done", !.disc = disc, !.githubThrew = FALSE, !.npmThrew = FALSE,
            !.githubServers = <<>>, !.npmServers = <<>>, !.sorted = <<>>, !.idx = 0,
            !.savedCount = 0]

\* setCache answers (discover lines 93-102, then runResearchJob).
CacheSetDoneMutSwallow(j, ok) ==
  /\ microtasks = <<>>
  /\ run[j].pc = "cacheSet"
  /\ LET disc == Resolved(run[j].sorted)
     IN /\ run' = [run EXCEPT ![j] = Returned(@, disc)]
        /\ Settle(j, disc)
  /\ cache' = IF ok THEN SetCache(cache, CacheKey(run[j].options), run[j].sorted,
                                  CacheTTL, now)
              ELSE cache
  /\ UNCHANGED <<now, redisClient, activeJobs, microtasks, catalog, submitted,
                 mergeIn, mergeOut, githubClient, call, configVars>>
CacheSetDone(j, ok) ==
  /\ microtasks = <<>>
  /\ run[j].pc = "cacheSet"
  /\ LET disc == IF ok THEN Resolved(run[j].sorted)
                 ELSE Rejected(WrapDiscoverError(RedisSetError))
     IN /\ run' = [run EXCEPT ![j] = Returned(@, disc)]
        /\ Settle(j, disc)
  /\ cache' = IF ok THEN SetCache(cache, CacheKey(run[j].options), run[j].sorted,
                                  CacheTTL, now)
              ELSE cache
  /\ UNCHANGED <<now, redisClient, activeJobs, microtasks, catalog, submitted,
                 mergeIn, mergeOut, githubClient, call, configVars>>

\* The clean-up timer of runResearchJob fires: activeJobs.delete(jobId).
Cleanup(t) ==
  /\ microtasks = <<>>
  /\ t \in timers
  /\ now >= t.due
  /\ activeJobs' = MapDelete(activeJobs, t.id)
  /\ timers' = timers \ {t}
  /\ UNCHANGED <<now, redisClient, jobs, run, microtasks, cache, catalog,
                 statusLog, submitted, mergeIn, mergeOut, githubClient, call,
                 configVars>>

\* Time passes; Redis drops the keys whose TTL has run out.
TimeSteps == {JobRetention}
Horizon == MaxHours * JobRetention

Tick(d) ==
  /\ microtasks = <<>>
  /\ now + d <= Horizon
  /\ now' = now + d
  /\ cache' = [k \in {k \in DOMAIN cache : now + d < cache[k].expiresAt} |-> cache[k]]
  /\ UNCHANGED <<redisClient, jobs, activeJobs, run, microtasks, timers, catalog,
                 statusLog, submitted, mergeIn, mergeOut, githubClient, call,
                 configVars>>

Step(scope) ==
  \/ \E options \in scope.options, suffix \in Suffixes, clientOk \in BOOLEAN :
       StartResearchJob(options, suffix, clientOk, scope.jobs)
  \/ DiscoverResume
  \/ SubmitReturn
  \/ RunResume
  \/ \E j \in JobRefs, ok \in BOOLEAN : CacheGetDone(j, ok)
  \/ \E j \in JobRefs, githubThrew, npmThrew \in BOOLEAN,
        items \in SeqsUpTo(scope.repos, scope.items),
        analyses \in SeqsUpTo(scope.analyses, scope.items) :
       SearchDone(j, githubThrew, items, npmThrew, analyses)
  \/ \E j \in JobRefs, ok \in BOOLEAN : UpsertDone(j, ok)
  \/ \E j \in JobRefs, ok \in BOOLEAN : CacheSetDone(j, ok)
  \/ \E t \in timers : Cleanup(t)
  \/ \E d \in TimeSteps : Tick(d)

\* Several concurrent jobs.
Next == Step(JobsScope)
Spec == Init /\ [][Next]_vars

\* One job, longer provider answers.
DiscoverNext == Step(DiscoverScope)
DiscoverSpec == Init /\ [][DiscoverNext]_vars

\* Several jobs writing the same catalog rows.
CatalogNext == Step(CatalogScope)
CatalogSpec == Init /\ [][CatalogNext]_vars

(***************************************************************************)
(* Scheduling: queued continuations run, every cache, provider and         *)
(* datastore call of a job eventually answers, a due timer fires and time  *)
(* passes.                                                                 *)
(***************************************************************************)
(***************************************************************************)
(* The end-to-end scenario: one discovery for 'file system' with default   *)
(* limits; GitHub finds the repository acme/fs-mcp (50 stars, a            *)
(* package.json with the keyword 'mcp', no README) and the registry finds  *)
(* the package fs-mcp-server, described as 'An MCP server for file         *)
(* access'.  What the scenario leaves open (how recently the package was   *)
(* modified, its downloads, which cache and datastore calls succeed) is    *)
(* free.                                                                   *)
(***************************************************************************)
ScenarioOptions ==
  [query |-> "file system", maxResults |-> 50, minStars |-> 10, includeForks |-> FALSE]
ScenarioRepo ==
  [owner |-> "acme", name |-> "fs-mcp", stars |-> 50, forks |-> 0, mcp |-> TRUE,
   fetchOk |-> TRUE]
ScenarioPackages == {p \in PackagePool : p.packageName = "fs-mcp-server"}

ScenarioNext ==
  \/ \E suffix \in Suffixes, clientOk \in BOOLEAN :
       StartResearchJob(ScenarioOptions, suffix, clientOk, 1)
  \/ DiscoverResume
  \/ SubmitReturn
  \/ RunResume
  \/ \E j \in JobRefs, ok \in BOOLEAN : CacheGetDone(j, ok)
  \/ \E j \in JobRefs, pkg \in ScenarioPackages :
       SearchDone(j, FALSE, <<ScenarioRepo>>, FALSE, AnalyzeSearchResults(<<pkg>>))
  \/ \E j \in JobRefs, ok \in BOOLEAN : UpsertDone(j, ok)
  \/ \E j \in JobRefs, ok \in BOOLEAN : CacheSetDone(j, ok)
  \/ \E t \in timers : Cleanup(t)
  \/ \E d \in TimeSteps : Tick(d)
ScenarioSpec == Init /\ [][ScenarioNext]_vars

(***************************************************************************)
(* One job over a catalog that already holds a row for acme/a: entered by  *)
(* hand and marked verified by the manual review.                          *)
(***************************************************************************)
SeededCatalog ==
  LET id == <<"acme", "/", "a">>
  IN [k \in {id} |->
        [id |-> id, source |-> "manual", sourceUrl |-> <<"https://example.org/a">>,
         packageName |-> <<"a-server">>, popularity |-> 1, tags |-> <<>>,
         readme |-> <<>>, verified |-> TRUE]]

SeededInit ==
  /\ now = 0
  /\ redisClient = FALSE
  /\ jobs = <<>>
  /\ activeJobs = <<>>
  /\ run = <<>>
  /\ microtasks = <<>>
  /\ timers = {}
  /\ cache = <<>>
  /\ catalog = SeededCatalog
  /\ statusLog = <<>>
  /\ submitted = <<>>
  /\ mergeIn = NoMerge
  /\ mergeOut = <<>>
  /\ githubClient = NewClient
  /\ call = NoCall
  /\ userConfigs = <<>>
  /\ configVersions = <<>>
  /\ keychain = {}
  /\ configOps = <<>>

SeededSpec == SeededInit /\ [][DiscoverNext]_vars

(***************************************************************************)
(* Several jobs while both providers are down: the search call of each     *)
(* branch throws, so no discovery has anything to save.                    *)
(***************************************************************************)
OutageNext ==
  \/ \E options \in JobOptionSet, suffix \in Suffixes, clientOk \in BOOLEAN :
       StartResearchJob(options, suffix, clientOk, MaxJobs)
  \/ DiscoverResume
  \/ SubmitReturn
  \/ RunResume
  \/ \E j \in JobRefs, ok \in BOOLEAN : CacheGetDone(j, ok)
  \/ \E j \in JobRefs : SearchDone(j, TRUE, <<>>, TRUE, <<>>)
  \/ \E j \in JobRefs, ok \in BOOLEAN : CacheSetDone(j, ok)
  \/ \E t \in timers : Cleanup(t)
  \/ \E d \in TimeSteps : Tick(d)
OutageSpec == Init /\ [][OutageNext]_vars

JobIO(j) ==
  /\ j \in JobRefs
  /\ \/ \E ok \in BOOLEAN : CacheGetDone(j, ok)
     \/ \E githubThrew, npmThrew \in BOOLEAN,
           items \in SeqsUpTo(JobsScope.repos, JobsScope.items),
           analyses \in SeqsUpTo(JobsScope.analyses, JobsScope.items) :
          SearchDone(j, githubThrew, items, npmThrew, analyses)
     \/ \E ok \in BOOLEAN : UpsertDone(j, ok)
     \/ \E ok \in BOOLEAN : CacheSetDone(j, ok)

Fairness ==
  /\ WF_vars(DiscoverResume)
  /\ WF_vars(SubmitReturn)
  /\ WF_vars(RunResume)
  /\ \A j \in 1..MaxJobs : WF_vars(JobIO(j))
  /\ WF_vars(\E t \in timers : Cleanup(t))
  /\ WF_vars(\E d \in TimeSteps : Tick(d))

FairSpec == Init /\ [][Next]_vars /\ Fairness

(***************************************************************************)
(* deduplicateAndMerge on its own, over lists with arbitrary identities.   *)
(***************************************************************************)
MergeIds == {<<"acme", "/", "a">>, <<"npm:", "a-mcp">>}

MergeGitHubPool ==
  { MCPServer(id, "github", popularity, <<"mcp">>, readme) :
      id \in MergeIds, popularity \in {0, 5}, readme \in {<<>>, <<"r", "r">>} }

MergeNpmPool ==
  { MCPServer(id, "npm", popularity, <<"npm", "mcp">>, <<"#">>) :
      id \in MergeIds, popularity \in {0, 42} }

ListsUpTo(pool, n) == UNION {[1..k -> pool] : k \in 0..n}

MergeInit ==
  /\ now = 0
  /\ redisClient = FALSE
  /\ jobs = <<>>
  /\ activeJobs = <<>>
  /\ run = <<>>
  /\ microtasks = <<>>
  /\ timers = {}
  /\ cache = <<>>
  /\ catalog = <<>>
  /\ statusLog = <<>>
  /\ submitted = <<>>
  /\ mergeIn \in [github : ListsUpTo(MergeGitHubPool, MaxMerge),
                  npm : ListsUpTo(MergeNpmPool, MaxMerge), done : {FALSE}]
  /\ mergeOut = <<>>
  /\ githubClient = NewClient
  /\ call = NoCall
  /\ userConfigs = <<>>
  /\ configVersions = <<>>
  /\ keychain = {}
  /\ configOps = <<>>

MergeCall ==
  /\ ~mergeIn.done
  /\ mergeOut' = DeduplicateAndMerge(mergeIn.github, mergeIn.npm)
  /\ mergeIn' = [mergeIn EXCEPT !.done = TRUE]
  /\ UNCHANGED <<now, redisClient, jobs, activeJobs, run, microtasks, timers,
                 cache, catalog, statusLog, submitted, githubClient, call,
                 configVars>>

MergeNext == MergeCall
MergeSpec == MergeInit /\ [][MergeNext]_vars


(***************************************************************************)
(* GitHubAPIClient.  A request meets a response (status and rate-limit     *)
(* headers; an absent header is "") or no response at all (status 0).      *)
(***************************************************************************)
ApiResponses ==
  { [status |-> 200, remaining |-> "42", reset |-> "1700"],
    [status |-> 200, remaining |-> "0", reset |-> "1800"],
    [status |-> 404, remaining |-> "41", reset |-> "1700"],
    [status |-> 403, remaining |-> "0", reset |-> "1800"],
    [status |-> 0, remaining |-> "", reset |-> ""] }

\* raw.githubusercontent.com: no rate-limit headers, but for a refusal.
RawResponses ==
  { [status |-> 200, remaining |-> "", reset |-> ""],
    [status |-> 404, remaining |-> "", reset |-> ""],
    [status |-> 403, remaining |-> "0", reset |-> "1800"] }

NotFound == [status |-> 404, remaining |-> "", reset |-> ""]

\* parseInt(header, 10) on the header values above.
ParseInt(h) ==
  CASE h = "0" -> 0 [] h = "41" -> 41 [] h = "42" -> 42
    [] h = "1700" -> 1700 [] h = "1800" -> 1800

ErrorOf(message) == [isError |-> TRUE, name |-> "Error", message |-> message]

RateLimitError ==
  ErrorOf(<<"GitHub API rate limit exceeded. Please try again later or provide a GitHub token.">>)

AxiosError(response) ==
  [isError |-> TRUE, name |-> "AxiosError",
   message |-> IF response.status = 0 THEN <<"Network Error">>
               ELSE <<"Request failed with status code ", response.status>>]

\* The response interceptor, fulfilled side (lines 76-88).
OnFulfilled(client, response) ==
  [client EXCEPT
     !.rateLimitRemaining = IF response.remaining # "" THEN ParseInt(response.remaining) ELSE @,
     !.rateLimitReset = IF response.reset # "" THEN ParseInt(response.reset) ELSE @]

\* The response interceptor, rejected side (lines 89-95).
OnRejected(response) ==
  IF response.status = 403 /\ response.remaining = "0" THEN RateLimitError
  ELSE AxiosError(response)

\* this.client.get: axios resolves on a 2xx status and rejects otherwise.
Request(client, response) ==
  IF response.status = 200
    THEN [client |-> OnFulfilled(client, response), ok |-> TRUE, error |-> NoError]
    ELSE [client |-> client, ok |-> FALSE, error |-> OnRejected(response)]

Sent(url, response) == [url |-> url, response |-> response]

SearchRepositories(client, response) ==
  LET r == Request(client, response)
  IN [client |-> r.client, requests |-> <<Sent("search", response)>>,
      outcome |-> IF r.ok THEN Resolved(<<"items">>)
                  ELSE Rejected(ErrorOf(<<"Failed to search GitHub repositories: ">>
                                        \o ErrorToString(r.error)))]

GetRepository(client, response) ==
  LET r == Request(client, response)
  IN [client |-> r.client, requests |-> <<Sent("repos", response)>>,
      outcome |-> IF r.ok THEN Resolved(<<"repoInfo">>)
                  ELSE Rejected(ErrorOf(<<"Failed to fetch repository ", "acme/a">>))]

GetRepositoryContents(client, response) ==
  LET r == Request(client, response)
  IN [client |-> r.client, requests |-> <<Sent("contents", response)>>,
      outcome |-> IF r.ok THEN Resolved(<<"files">>)
                  ELSE Rejected(ErrorOf(<<"Failed to fetch repository contents: ", "acme/a/">>))]

\* downloadFile: the main branch, and the master branch when that failed.
DownloadFileMutNoFallback(client, first, second) ==
  LET r1 == Request(client, first)
  IN [client |-> r1.client, requests |-> <<Sent("main", first)>>,
      outcome |-> IF r1.ok THEN Resolved(<<"content", "main">>)
                  ELSE Rejected(ErrorOf(<<"Failed to download file: ", "acme/a/package.json">>))]
DownloadFile(client, first, second) ==
  LET r1 == Request(client, first)
      r2 == Request(r1.client, second)
  IN IF r1.ok
       THEN [client |-> r1.client, requests |-> <<Sent("main", first)>>,
             outcome |-> Resolved(<<"content", "main">>)]
       ELSE [client |-> r2.client,
             requests |-> <<Sent("main", first), Sent("master", second)>>,
             outcome |-> IF r2.ok THEN Resolved(<<"content", "master">>)
                         ELSE Rejected(ErrorOf(<<"Failed to download file: ",
                                                 "acme/a/package.json">>))]

GetRateLimitStatus(client) ==
  [remaining |-> client.rateLimitRemaining,
   reset |-> client.rateLimitReset * 1000,
   isLimited |-> client.rateLimitRemaining <= 0]

CanMakeRequest(client) == client.rateLimitRemaining > 0

ClientOps == {"searchRepositories", "getRepository", "getRepositoryContents", "downloadFile"}

ClientOp(op, client, first, second) ==
  CASE op = "searchRepositories" -> SearchRepositories(client, first)
    [] op = "getRepository" -> GetRepository(client, first)
    [] op = "getRepositoryContents" -> GetRepositoryContents(client, first)
    [] op = "downloadFile" -> DownloadFile(client, first, second)

\* One call of a client operation, with the responses its requests meet.
ClientCall(op, first, second) ==
  /\ call.calls < MaxCalls
  /\ IF op = "downloadFile" THEN first \in RawResponses /\ second \in RawResponses
     ELSE first \in ApiResponses /\ second = first
  /\ LET done == ClientOp(op, githubClient, first, second)
     IN /\ githubClient' = done.client
        /\ call' = [op |-> op, calls |-> call.calls + 1,
                    requests |-> done.requests, outcome |-> done.outcome]
  /\ UNCHANGED <<now, redisClient, jobs, activeJobs, run, microtasks, timers,
                 cache, catalog, statusLog, submitted, mergeIn, mergeOut,
                 configVars>>

(***************************************************************************)
(* RepositoryMetadataExtractor.analyzeRepository with the requests it      *)
(* sends.  answers: what the metadata request meets and the star count it  *)
(* reports, what every raw download meets, what the directory listing      *)
(* meets and how many schema files it lists, and whether the downloaded    *)
(* content carries MCP signal.                                             *)
(***************************************************************************)
AnalyzerAnswers ==
  [meta : ApiResponses, stars : {4, 5, 50}, raw : RawResponses,
   listing : ApiResponses, files : {0, 1}, mcp : BOOLEAN]

RECURSIVE Repeat(_, _)
Repeat(seq, n) == IF n = 0 THEN <<>> ELSE seq \o Repeat(seq, n - 1)

AnalyzeRepositoryRequestsMutNoFloor(client, answers) ==
  LET meta == GetRepository(client, answers.meta)
      rawOk == answers.raw.status = 200
      download == DownloadFile(meta.client, answers.raw, answers.raw).requests
      listing == GetRepositoryContents(meta.client, answers.listing)
      listed == IF listing.outcome.kind = "resolved" THEN answers.files ELSE 0
      hasMCP == answers.mcp /\ rawOk
  IN IF meta.outcome.kind = "rejected"
       THEN [client |-> meta.client, requests |-> meta.requests, outcome |-> Resolved(<<>>)]
       ELSE [client |-> listing.client,
             requests |-> meta.requests \o download
                          \o Repeat(download, IF rawOk THEN 1 ELSE 3)
                          \o listing.requests \o Repeat(download, listed),
             outcome |-> IF hasMCP
                           THEN Resolved(<<MCPServer(<<"acme", "/", "a">>, "github",
                                                     answers.stars, <<"mcp">>, <<"r">>)>>)
                           ELSE Resolved(<<>>)]
AnalyzeRepositoryRequests(client, answers) ==
  LET meta == GetRepository(client, answers.meta)
      rawOk == answers.raw.status = 200
      \* one downloadFile call: package.json, a README path, a schema file
      download == DownloadFile(meta.client, answers.raw, answers.raw).requests
      listing == GetRepositoryContents(meta.client, answers.listing)
      listed == IF listing.outcome.kind = "resolved" THEN answers.files ELSE 0
      hasMCP == answers.mcp /\ rawOk
  IN IF meta.outcome.kind = "rejected"
       THEN \* caught at line 120: null
            [client |-> meta.client, requests |-> meta.requests, outcome |-> Resolved(<<>>)]
       ELSE IF answers.stars < AnalyzerMinStars
         THEN [client |-> meta.client, requests |-> meta.requests, outcome |-> Resolved(<<>>)]
         ELSE [client |-> listing.client,
               requests |-> meta.requests \o download
                            \o Repeat(download, IF rawOk THEN 1 ELSE 3)
                            \o listing.requests \o Repeat(download, listed),
               outcome |-> IF hasMCP
                             THEN Resolved(<<MCPServer(<<"acme", "/", "a">>, "github",
                                                       answers.stars, <<"mcp">>, <<"r">>)>>)
                             ELSE Resolved(<<>>)]

\* One analyzeRepository call on its own.
AnalyzeCall(answers) ==
  /\ call.calls < MaxCalls
  /\ LET done == AnalyzeRepositoryRequests(githubClient, answers)
     IN /\ githubClient' = done.client
        /\ call' = [op |-> "analyzeRepository", calls |-> call.calls + 1,
                    answers |-> answers,
                    requests |-> done.requests, outcome |-> done.outcome]
  /\ UNCHANGED <<now, redisClient, jobs, activeJobs, run, microtasks, timers,
                 cache, catalog, statusLog, submitted, mergeIn, mergeOut,
                 configVars>>

\* One searchGitHub call on its own, on the items the search returned.
SearchGitHubCall(items, options) ==
  /\ call.calls < MaxCalls
  /\ call' = [op |-> "searchGitHub", calls |-> call.calls + 1,
              items |-> items, options |-> options,
              outcome |-> Resolved(SearchGitHub(items, options.maxResults,
                                                options.minStars, options.includeForks))]
  /\ UNCHANGED <<now, redisClient, jobs, activeJobs, run, microtasks, timers,
                 cache, catalog, statusLog, submitted, mergeIn, mergeOut, githubClient,
                 configVars>>

(***************************************************************************)
(* ResearchService.searchNpm on its own: the registry search, the analysis *)
(* of every package found, the conversion of the qualifying ones.  A       *)
(* search result names a package once.                                     *)
(***************************************************************************)
PackageLists ==
  {q \in SeqsUpTo(PackagePool, MaxItems) :
     \A i, k \in 1..Len(q) : i # k => q[i].packageName # q[k].packageName}

SearchNpmCall(packages, searchOk) ==
  /\ call.calls < MaxCalls
  /\ LET analyses == IF searchOk THEN AnalyzeSearchResults(packages) ELSE <<>>
     IN call' = [op |-> "searchNpm", calls |-> call.calls + 1,
                 packages |-> packages, searchOk |-> searchOk,
                 analyses |-> analyses, outcome |-> Resolved(SearchNpm(analyses))]
  /\ UNCHANGED <<now, redisClient, jobs, activeJobs, run, microtasks, timers,
                 cache, catalog, statusLog, submitted, mergeIn, mergeOut, githubClient,
                 configVars>>

PackageNext ==
  \E packages \in PackageLists, searchOk \in BOOLEAN : SearchNpmCall(packages, searchOk)
PackageSpec == Init /\ [][PackageNext]_vars

(***************************************************************************)
(* ResearchService.analyzeRepository(url): parse the URL, look in the      *)
(* cache, analyze the repository, cache a server for six hours.  Every     *)
(* error, the one thrown for a URL that does not match included, is        *)
(* rethrown wrapped at line 273.  One call is one action; io lists the     *)
(* Redis commands and GitHub requests it sent.                             *)
(***************************************************************************)
RepoCacheTTL == 21600

Urls == {"https://github.com/acme/a", "https://github.com/acme/a.git",
         "https://gitlab.com/acme/a", "https://github.com/acme"}

InvalidUrlError ==
  [isError |-> TRUE, name |-> "Error", message |-> <<"Invalid GitHub repository URL">>]
WrapAnalyzeError(e) ==
  [isError |-> TRUE, name |-> "Error",
   message |-> <<"Failed to analyze repository: ">> \o ErrorToString(e)]

\* The end of the run of characters other than '/' that starts at p.
RunEnd(text, p) ==
  IF \E q \in p..Len(text) : text[q] = "/"
    THEN (CHOOSE q \in p..Len(text) :
            text[q] = "/" /\ \A k \in p..(q - 1) : text[k] # "/") - 1
    ELSE Len(text)

\* url.match(/<host>\/([^\/]+)\/([^\/]+)/): the leftmost place where the
\* host, a non-empty owner, a slash and a non-empty repo follow each other.
MatchAfter(text, host) ==
  LET OwnerAt(i) == i + Len(host)
      Fits(i) ==
        /\ SubSeq(text, i, i + Len(host) - 1) = host
        /\ RunEnd(text, OwnerAt(i)) >= OwnerAt(i)
        /\ RunEnd(text, OwnerAt(i)) + 2 <= Len(text)
        /\ text[RunEnd(text, OwnerAt(i)) + 2] # "/"
      places == {i \in 1..(Len(text) - Len(host) + 1) : Fits(i)}
  IN IF places = {} THEN [ok |-> FALSE, owner |-> <<>>, repo |-> <<>>]
     ELSE LET i == CHOOSE i \in places : \A k \in places : i <= k
              ownerEnd == RunEnd(text, OwnerAt(i))
          IN [ok |-> TRUE, owner |-> SubSeq(text, OwnerAt(i), ownerEnd),
              repo |-> SubSeq(text, ownerEnd + 2, RunEnd(text, ownerEnd + 2))]

MatchGitHubMutAnyHost(text) == MatchAfter(text, <<".", "c", "o", "m", "/">>)
MatchGitHub(text) ==
  MatchAfter(text, <<"g", "i", "t", "h", "u", "b", ".", "c", "o", "m", "/">>)

\* repo.replace(/\.git$/, '')
CleanRepo(repo) ==
  IF Len(repo) >= 4 /\ SubSeq(repo, Len(repo) - 3, Len(repo)) = <<".", "g", "i", "t">>
    THEN SubSeq(repo, 1, Len(repo) - 4)
    ELSE repo

AnalyzeSingle(url, answers, clientOk, getOk, setOk) ==
  LET match == MatchGitHub(Chars(url))
      owner == match.owner
      cleanRepo == CleanRepo(match.repo)
      cacheKey == <<"repo:", owner, "/", cleanRepo>>
      created == redisClient \/ clientOk
      cached == GetCache(cache, cacheKey, now)
      analysis == AnalyzeRepositoryRequests(githubClient, answers)
      found == analysis.outcome.value
      server == [i \in 1..Len(found) |-> [found[i] EXCEPT !.id = <<owner, "/", cleanRepo>>]]
      stored == [k \in DOMAIN cache \cup {cacheKey} |->
                   IF k = cacheKey
                     THEN [value |-> <<"json", ServerToJSON(server[1])>>,
                           expiresAt |-> now + RepoCacheTTL * 1000]
                     ELSE cache[k]]
      Result(outcome, io, client, redis, store) ==
        [outcome |-> outcome, io |-> io, githubClient |-> client,
         redisClient |-> redis, cache |-> store]
  IN IF ~match.ok
       THEN Result(Rejected(WrapAnalyzeError(InvalidUrlError)), <<>>, githubClient,
                   redisClient, cache)
     ELSE IF ~created
       THEN Result(Rejected(WrapAnalyzeError(ClientCreateError)), <<>>, githubClient,
                   FALSE, cache)
     ELSE IF ~getOk
       THEN Result(Rejected(WrapAnalyzeError(RedisGetError)), <<"GET">>, githubClient,
                   TRUE, cache)
     ELSE IF Truthy(cached)
       THEN Result(Resolved(<<cached.value>>), <<"GET">>, githubClient, TRUE, cache)
     ELSE IF server = <<>>
       THEN Result(Resolved(<<>>), <<"GET">> \o analysis.requests, analysis.client,
                   TRUE, cache)
     ELSE IF ~setOk
       THEN Result(Rejected(WrapAnalyzeError(RedisSetError)),
                   <<"GET">> \o analysis.requests \o <<"SETEX">>, analysis.client,
                   TRUE, cache)
     ELSE Result(Resolved(server), <<"GET">> \o analysis.requests \o <<"SETEX">>,
                 analysis.client, TRUE, stored)

AnalyzeSingleCall(url, answers, clientOk, getOk, setOk) ==
  /\ call.calls < MaxCalls
  /\ LET done == AnalyzeSingle(url, answers, clientOk, getOk, setOk)
     IN /\ githubClient' = done.githubClient
        /\ redisClient' = done.redisClient
        /\ cache' = done.cache
        /\ call' = [op |-> "analyzeSingle", calls |-> call.calls + 1, url |-> url,
                    io |-> done.io, outcome |-> done.outcome]
  /\ UNCHANGED <<now, jobs, activeJobs, run, microtasks, timers, catalog,
                 statusLog, submitted, mergeIn, mergeOut, configVars>>

\* What GitHub answers to the analyzer in these calls: the repository is
\* found or not, above or under the star floor, with or without MCP signal.
SingleAnswers ==
  {a \in AnalyzerAnswers :
     /\ a.meta.status \in {200, 404} /\ a.listing = a.meta /\ a.raw.status = 200
     /\ a.stars \in {4, 50} /\ a.files = 0}

SingleNext ==
  \/ \E url \in Urls, answers \in SingleAnswers, clientOk, getOk, setOk \in BOOLEAN :
       AnalyzeSingleCall(url, answers, clientOk, getOk, setOk)
  \/ \E d \in TimeSteps : Tick(d)
SingleSpec == Init /\ [][SingleNext]_vars

(***************************************************************************)
(* ConfigurationService.createConfig and updateConfig, with                *)
(* VersionService.createVersionSnapshot.  A createConfig call is one       *)
(* action.  The steps of an updateConfig call are the datastore calls it   *)
(* awaits: calls on the same configuration interleave between them.        *)
(***************************************************************************)
KeepVersions == 10

ValidationError(message) ==
  [isError |-> TRUE, name |-> "ValidationError", message |-> message]
StoreSecretError(key) ==
  [isError |-> TRUE, name |-> "Error",
   message |-> <<"Failed to securely store secret: ", key>>]
UpdateSecretError(key) ==
  [isError |-> TRUE, name |-> "Error",
   message |-> <<"Failed to securely update secret: ", key>>]
DatastoreError ==
  [isError |-> TRUE, name |-> "PrismaClientKnownRequestError",
   message |-> <<"Can't reach database server">>]

\* The secrets of a request, in the order Object.entries lists them.
SecretLists == {<<>>, <<"API_KEY">>, <<"API_KEY", "TOKEN">>}

\* prisma generates the id of a new row.
NewConfigId == <<"config", Cardinality(DOMAIN userConfigs) + 1>>

\* versionService.cleanupOldVersions: of the snapshots of the configuration,
\* the KeepVersions with the highest version stay.
RECURSIVE DropOldest(_, _, _)
DropOldest(rows, configId, excess) ==
  IF excess <= 0 THEN rows
  ELSE LET own == {i \in 1..Len(rows) : rows[i].configId = configId}
           oldest == CHOOSE i \in own : \A k \in own :
                       rows[i].version < rows[k].version
                       \/ (rows[i].version = rows[k].version /\ i <= k)
       IN DropOldest(SubSeq(rows, 1, oldest - 1) \o SubSeq(rows, oldest + 1, Len(rows)),
                     configId, excess - 1)
CleanupOldVersions(rows, configId) ==
  DropOldest(rows, configId,
             Cardinality({i \in 1..Len(rows) : rows[i].configId = configId}) - KeepVersions)

\* prisma.configVersion.create with the version read before, then the
\* clean-up.
InsertSnapshot(rows, configId, version) ==
  CleanupOldVersions(Append(rows, [configId |-> configId, version |-> version]), configId)

\* createConfig(userId, request): serverFound tells whether the server of
\* the request is in the catalog, failAt which storeSecret call fails (0:
\* none).
CreateConfig(secrets, serverFound, failAt) ==
  LET id == NewConfigId
      stored == {<<id, secrets[i]>> : i \in 1..(IF failAt = 0 THEN Len(secrets) ELSE failAt - 1)}
      \* line 50: the row is created first, without secret references
      created == MapPut(userConfigs, id, [version |-> 1, secrets |-> {}])
      \* line 77: the references are written once every secret is stored
      row == [version |-> 1, secrets |-> {secrets[i] : i \in 1..Len(secrets)}]
  IN IF ~serverFound
       THEN [outcome |-> Rejected(ValidationError(<<"MCP server with ID ", "server-1", " not found">>)),
             userConfigs |-> userConfigs, keychain |-> keychain,
             configVersions |-> configVersions, configId |-> Undefined]
     ELSE IF failAt # 0
       THEN [outcome |-> Rejected(StoreSecretError(secrets[failAt])),
             userConfigs |-> created, keychain |-> keychain \cup stored,
             configVersions |-> configVersions, configId |-> id]
     ELSE [outcome |-> Resolved(<<[id |-> id, version |-> 1]>>),
           userConfigs |-> MapPut(userConfigs, id, row), keychain |-> keychain \cup stored,
           configVersions |-> InsertSnapshot(configVersions, id, 1), configId |-> id]

ConfigOp(kind, configId, secrets, pc, outcome) ==
  [kind |-> kind, configId |-> configId, secrets |-> secrets, pc |-> pc,
   outcome |-> outcome, version |-> 0, read |-> 0]

CreateConfigCall(secrets, serverFound, failAt) ==
  /\ Cardinality({i \in 1..Len(configOps) : configOps[i].kind = "create"}) < MaxConfigs
  /\ failAt \in 0..Len(secrets)
  /\ serverFound \/ failAt = 0
  /\ LET done == CreateConfig(secrets, serverFound, failAt)
     IN /\ userConfigs' = done.userConfigs
        /\ keychain' = done.keychain
        /\ configVersions' = done.configVersions
        /\ configOps' = Append(configOps,
             ConfigOp("create", done.configId, {}, "done", done.outcome))
  /\ UNCHANGED <<now, redisClient, jobs, activeJobs, run, microtasks, timers, cache,
                 catalog, statusLog, submitted, mergeIn, mergeOut, githubClient, call>>

\* updateConfig up to its update of the row: the configuration is looked up
\* (line 163) and the secrets of the request, if any, are put in the
\* keychain (line 181); the references to write are those of the row read
\* and those of the secrets stored.
UpdateConfigStart(configId, secrets, failAt) ==
  /\ Cardinality({i \in 1..Len(configOps) : configOps[i].kind = "update"}) < MaxUpdates
  /\ failAt \in 0..Len(secrets)
  /\ LET found == configId \in DOMAIN userConfigs
         stored == {<<configId, secrets[i]>> :
                      i \in 1..(IF failAt = 0 THEN Len(secrets) ELSE failAt - 1)}
     IN /\ found \/ failAt = 0
        /\ keychain' = IF found THEN keychain \cup stored ELSE keychain
        /\ configOps' = Append(configOps,
             IF ~found
               THEN ConfigOp("update", configId, {}, "done",
                      Rejected(ValidationError(<<"Configuration not found or access denied">>)))
             ELSE IF failAt # 0
               THEN ConfigOp("update", configId, {}, "done",
                             Rejected(UpdateSecretError(secrets[failAt])))
             ELSE ConfigOp("update", configId,
                           userConfigs[configId].secrets
                             \cup {secrets[i] : i \in 1..Len(secrets)},
                           "update", Unsettled))
  /\ UNCHANGED <<now, redisClient, jobs, activeJobs, run, microtasks, timers, cache,
                 catalog, statusLog, submitted, mergeIn, mergeOut, githubClient, call,
                 userConfigs, configVersions>>

\* prisma.userConfig.update (line 190) answers: the row has the new
\* secret references and its version incremented by the datastore, or the
\* update failed and updateConfig rethrows.
UpdateConfigWrite(o, ok) ==
  /\ configOps[o].pc = "update"
  /\ LET id == configOps[o].configId
         row == userConfigs[id]
         updated == [row EXCEPT !.version = @ + 1,
                                !.secrets = configOps[o].secrets]
     IN IF ok
          THEN /\ userConfigs' = [userConfigs EXCEPT ![id] = updated]
               /\ configOps' = [configOps EXCEPT ![o].pc = "snapshotRead",
                                                ![o].version = updated.version]
          ELSE /\ userConfigs' = userConfigs
               /\ configOps' = [configOps EXCEPT ![o].pc = "done",
                                                ![o].outcome = Rejected(DatastoreError)]
  /\ UNCHANGED <<now, redisClient, jobs, activeJobs, run, microtasks, timers, cache,
                 catalog, statusLog, submitted, mergeIn, mergeOut, githubClient, call,
                 configVersions, keychain>>

\* createVersionSnapshot: prisma.userConfig.findUnique (line 266) answers.
SnapshotRead(o) == userConfigs[configOps[o].configId].version

UpdateConfigSnapshotRead(o) ==
  /\ configOps[o].pc = "snapshotRead"
  /\ configOps' = [configOps EXCEPT ![o].pc = "snapshotWrite", ![o].read = SnapshotRead(o)]
  /\ UNCHANGED <<now, redisClient, jobs, activeJobs, run, microtasks, timers, cache,
                 catalog, statusLog, submitted, mergeIn, mergeOut, githubClient, call,
                 userConfigs, configVersions, keychain>>

\* createVersionSnapshot: prisma.configVersion.create (line 271) answers and
\* the clean-up runs, or the insert failed and the catch logs it without
\* throwing; either way updateConfig returns the row its update returned.
UpdateConfigSnapshotWrite(o, ok) ==
  /\ configOps[o].pc = "snapshotWrite"
  /\ configVersions' = IF ok
       THEN InsertSnapshot(configVersions, configOps[o].configId, configOps[o].read)
       ELSE configVersions
  /\ configOps' = [configOps EXCEPT
       ![o].pc = "done", ![o].read = 0, ![o].secrets = {},
       ![o].outcome = Resolved(<<[id |-> configOps[o].configId,
                                  version |-> configOps[o].version]>>)]
  /\ UNCHANGED <<now, redisClient, jobs, activeJobs, run, microtasks, timers, cache,
                 catalog, statusLog, submitted, mergeIn, mergeOut, githubClient, call,
                 userConfigs, keychain>>

ConfigNext ==
  \/ \E secrets \in SecretLists, serverFound \in BOOLEAN, failAt \in 0..2 :
       CreateConfigCall(secrets, serverFound, failAt)
  \/ \E secrets \in SecretLists, failAt \in 0..2 :
       UpdateConfigStart(<<"config", 1>>, secrets, failAt)
  \/ \E o \in 1..Len(configOps), ok \in BOOLEAN : UpdateConfigWrite(o, ok)
  \/ \E o \in 1..Len(configOps) : UpdateConfigSnapshotRead(o)
  \/ \E o \in 1..Len(configOps), ok \in BOOLEAN : UpdateConfigSnapshotWrite(o, ok)
ConfigSpec == Init /\ [][ConfigNext]_vars

ClientNext ==
  \/ \E op \in ClientOps, first, second \in ApiResponses \cup RawResponses :
       ClientCall(op, first, second)
  \/ \E answers \in AnalyzerAnswers : AnalyzeCall(answers)
  \/ \E items \in SeqsUpTo(RepoPool, MaxItems), options \in OptionSet :
       SearchGitHubCall(items, options)
ClientSpec == Init /\ [][ClientNext]_vars


(***************************************************************************)
(* Claims.                                                                 *)
(***************************************************************************)
Terminal(status) == status \in {"completed", "failed"}
Last(seq) == seq[Len(seq)]
Registered(j) == jobs[j].id \in DOMAIN activeJobs /\ activeJobs[jobs[j].id] = j

\* C1: a job's status only moves pending -> running -> completed or
\* pending -> running -> failed: the values assigned to it are a prefix of one
\* of these two paths, a completed or failed status never changes again, and
\* a job becomes completed or failed only from running.
C1_StatusLogOk ==
  \A j \in JobRefs :
    /\ statusLog[j] \in { <<"pending", "running">>,
                          <<"pending", "running", "completed">>,
                          <<"pending", "running", "failed">> }
    /\ jobs[j].status = Last(statusLog[j])

C1_StatusStepOk ==
  \A j \in JobRefs :
    \/ jobs'[j].status = jobs[j].status
    \/ jobs[j].status = "running" /\ Terminal(jobs'[j].status)

C1_StatusForward == [](C1_StatusLogOk) /\ [][C1_StatusStepOk]_vars

C1_Witness ==
  \E j, k \in JobRefs :
    /\ statusLog[j] = <<"pending", "running", "completed">>
    /\ statusLog[k] = <<"pending", "running", "failed">>

\* C2: under the scheduling assumptions (every call answers), every job that
\* was created eventually is completed or failed.
C2_JobsTerminate ==
  \A j \in 1..MaxJobs :
    (Len(jobs) >= j) ~> (Len(jobs) >= j /\ Terminal(jobs[j].status))

C2_Witness ==
  \E j \in JobRefs : Terminal(jobs[j].status) /\ run[j].pc = "done"

\* C3: when a job's discover call rejects, the job is failed with the
\* rejection's message as its error and no results; the step in which it
\* fails changes no other job and nothing the submitters got, and the
\* submitter of the job has (or still gets) the job id.
C3_FailedAsRejected ==
  \A j \in JobRefs :
    /\ (run[j].pc = "done" /\ run[j].disc.kind = "rejected") =>
         /\ jobs[j].status = "failed"
         /\ jobs[j].error = run[j].disc.error.message
         /\ jobs[j].results = <<>>
    /\ submitted[j].returned => submitted[j].id = jobs[j].id

C3_FailureIsLocal ==
  \A j \in JobRefs :
    (jobs[j].status # "failed" /\ jobs'[j].status = "failed") =>
      /\ \A k \in JobRefs \ {j} : jobs'[k] = jobs[k] /\ run'[k] = run[k]
      /\ submitted' = submitted
      /\ activeJobs' = activeJobs

C3_RejectionFailsJob == [](C3_FailedAsRejected) /\ [][C3_FailureIsLocal]_vars

C3_Witness ==
  \E j, k \in JobRefs :
    /\ j # k
    /\ run[j].disc.kind = "rejected" /\ jobs[j].status = "failed"
    /\ run[j].disc.error = WrapDiscoverError(RedisSetError)
    /\ submitted[j].returned
    /\ jobs[k].status = "completed"

\* C4: for every job of the registry (and every job object), results are
\* non-empty only when completed, error is set only when failed, and
\* completedAt is set exactly when the status is completed or failed.
C4_JobRecordConsistent ==
  \A j \in JobRefs :
    /\ jobs[j].results # <<>> => jobs[j].status = "completed"
    /\ jobs[j].error # Undefined => jobs[j].status = "failed"
    /\ jobs[j].completedAt # NoTime <=> Terminal(jobs[j].status)

C4_Witness ==
  \E j, k \in JobRefs :
    /\ Registered(j) /\ jobs[j].status = "completed" /\ jobs[j].results # <<>>
    /\ Registered(k) /\ jobs[k].status = "failed" /\ jobs[k].error # Undefined

\* C5: until the caller of startResearchJob has the job id, no cache,
\* provider or datastore call of the job has answered; and the status the
\* caller finds when it looks the job up at once is pending or running.
C5_ReturnsBeforeIO ==
  \A j \in JobRefs :
    /\ ~submitted[j].returned =>
         /\ run[j].pc \in {"cacheGet", "getCacheRejected", "settled"}
         /\ run[j].providerCalls = 0
    /\ submitted[j].returned => submitted[j].seen \in {"pending", "running"}

C5_Witness ==
  \E j \in JobRefs :
    /\ submitted[j].returned
    /\ submitted[j].seen = "running"
    /\ jobs[j].status = "failed"
    /\ run[j].disc.error = ClientCreateError


\* C6 (as claimed): a registered job stays registered while it is pending or
\* running and, once completed or failed, until the retention window is over.
C6_RetainedAsClaimed ==
  [][\A j \in JobRefs :
       (Registered(j) /\ (~Terminal(jobs[j].status)
                          \/ now' < jobs[j].completedAt + JobRetention))
       => (jobs'[j].id \in DOMAIN activeJobs' /\ activeJobs'[jobs'[j].id] = j)]_vars

\* C7 (as claimed): the id of a new job is the id of no registered job, and a
\* clean-up timer removes no job but the one it was set for.
C7_FreshIdAsClaimed ==
  [][/\ Len(jobs') > Len(jobs) => jobs'[Len(jobs')].id \notin DOMAIN activeJobs
     /\ \A t \in timers \ timers' :
          t.id \in DOMAIN activeJobs => activeJobs[t.id] = t.job]_vars

\* C8 (as claimed): when exactly one search branch threw, discover resolves
\* with the other branch's entries (ranked, cut to maxResults) and does not
\* reject.
OneBranchThrew(r) == r.githubThrew # r.npmThrew
Survivors(r) == IF r.githubThrew THEN r.npmServers ELSE r.githubServers

C8_NeverRejectsAsClaimed ==
  [][\A j \in JobRefs :
       (run[j].pc \in {"search", "save", "cacheSet"} /\ run'[j].pc = "done"
        /\ OneBranchThrew(run[j]))
       => run'[j].disc = Resolved(RankAndLimit(Survivors(run[j]),
                                               run[j].options.maxResults))]_vars

\* C8 (amended): when exactly one search branch threw, the list discover goes
\* on to save and cache is the other branch's entries, ranked and cut to
\* maxResults; discover resolves with that list when the final cache write
\* succeeds and rejects with the wrapped cache error when it fails.
C8_SurvivorsRanked ==
  \A j \in JobRefs :
    (run[j].pc \in {"save", "cacheSet"} /\ OneBranchThrew(run[j])) =>
      run[j].sorted = RankAndLimit(Survivors(run[j]), run[j].options.maxResults)

C8_SettlesWithRanked ==
  \A j \in JobRefs :
    (run[j].pc = "cacheSet" /\ run'[j].pc = "done") =>
      \/ /\ run'[j].disc = Resolved(run[j].sorted)
         /\ CacheKey(run[j].options) \in DOMAIN cache'
      \/ /\ run'[j].disc = Rejected(WrapDiscoverError(RedisSetError))
         /\ cache' = cache

C8_BranchIsolation == [](C8_SurvivorsRanked) /\ [][C8_SettlesWithRanked]_vars

C8_Witness ==
  \E j \in JobRefs :
    /\ run[j].pc = "cacheSet"
    /\ run[j].githubThrew /\ ~run[j].npmThrew
    /\ Len(run[j].npmServers) > Len(run[j].sorted)
    /\ run[j].sorted # <<>>

\* C9: when the cache holds a value under the key of a discover call and the
\* cache read answers, discover returns exactly the parsed value and has made
\* no provider call.
CacheHolds(key) == key \in DOMAIN cache /\ now < cache[key].expiresAt

C9_HitStep ==
  \A j \in JobRefs :
    (/\ run[j].pc = "cacheGet" /\ run'[j].pc # "cacheGet"
     /\ CacheHolds(CacheKey(run[j].options))
     /\ run'[j].disc.error # RedisGetError)
    => /\ run'[j].pc = "done"
       /\ run'[j].disc = Resolved(JSONParse(cache[CacheKey(run[j].options)].value))
       /\ run'[j].providerCalls = 0

C9_CacheHit == [][C9_HitStep]_vars

C9_Witness ==
  \E j, k \in JobRefs :
    /\ run[k].pc = "done" /\ run[k].providerCalls = 2
    /\ run[j].hit /\ run[j].providerCalls = 0
    /\ run[j].disc.kind = "resolved" /\ run[j].disc.value # <<>>
    /\ run[j].disc.value[1].createdAt = "ISOString"
    /\ jobs[j].results = run[j].disc.value

\* C10: for lists whose identities are distinct within each list, the merge
\* returns |A| + |B| - |collisions| entries and no identity twice.
Ids(list) == {list[i].id : i \in 1..Len(list)}
DistinctIds(list) == Cardinality(Ids(list)) = Len(list)

C10_MergeCount ==
  (mergeIn.done /\ DistinctIds(mergeIn.github) /\ DistinctIds(mergeIn.npm)) =>
    /\ Len(mergeOut) = Len(mergeIn.github) + Len(mergeIn.npm)
                       - Cardinality(Ids(mergeIn.github) \cap Ids(mergeIn.npm))
    /\ DistinctIds(mergeOut)

C10_Witness ==
  /\ mergeIn.done
  /\ DistinctIds(mergeIn.github) /\ DistinctIds(mergeIn.npm)
  /\ Len(mergeIn.github) = MaxMerge /\ Len(mergeIn.npm) = MaxMerge
  /\ Cardinality(Ids(mergeIn.github) \cap Ids(mergeIn.npm)) >= 1
  /\ Len(mergeOut) < Len(mergeIn.github) + Len(mergeIn.npm)

\* The entry of a list with the given identity, and the identities both
\* inputs of a finished merge hold when each is duplicate-free.
EntryOf(list, id) == list[CHOOSE i \in 1..Len(list) : list[i].id = id]
Collisions ==
  IF mergeIn.done /\ DistinctIds(mergeIn.github) /\ DistinctIds(mergeIn.npm)
    THEN Ids(mergeIn.github) \cap Ids(mergeIn.npm)
    ELSE {}

\* C11: the popularity of an entry merged from a repository entry and a
\* registry entry of the same identity is the repository's when that is not
\* zero, else the registry's when that is not zero, else 0.
C11_PopularityFirstTruthy ==
  \A id \in Collisions :
    LET g == EntryOf(mergeIn.github, id)
        n == EntryOf(mergeIn.npm, id)
    IN EntryOf(mergeOut, id).popularity =
         IF g.popularity # 0 THEN g.popularity
         ELSE IF n.popularity # 0 THEN n.popularity
         ELSE 0

C11_Witness ==
  \E a, b \in Collisions :
    /\ EntryOf(mergeIn.github, a).popularity = 0
    /\ EntryOf(mergeIn.npm, a).popularity = 42
    /\ EntryOf(mergeOut, a).popularity = 42
    /\ EntryOf(mergeIn.github, b).popularity = 5
    /\ EntryOf(mergeIn.npm, b).popularity = 42
    /\ EntryOf(mergeOut, b).popularity = 5

\* C12: an entry merged from a repository entry and a registry entry of the
\* same identity has the repository entry's value in every field but
\* popularity, tags and readme; its tags are the union of both tag lists
\* without a duplicate, and its readme is the longer of the two.
Elems(seq) == {seq[i] : i \in 1..Len(seq)}

C12_MergeKeepsRepositoryFields ==
  \A id \in Collisions :
    LET g == EntryOf(mergeIn.github, id)
        n == EntryOf(mergeIn.npm, id)
        m == EntryOf(mergeOut, id)
    IN /\ DOMAIN m = DOMAIN g
       /\ \A f \in DOMAIN g \ {"popularity", "tags", "readme"} : m[f] = g[f]
       /\ Elems(m.tags) = Elems(g.tags) \cup Elems(n.tags)
       /\ Cardinality(Elems(m.tags)) = Len(m.tags)
       /\ m.readme \in {g.readme, n.readme}
       /\ Len(m.readme) >= Len(g.readme) /\ Len(m.readme) >= Len(n.readme)

C12_Witness ==
  \E a, b \in Collisions :
    /\ EntryOf(mergeOut, a).source = "github"
    /\ EntryOf(mergeOut, a).readme = EntryOf(mergeIn.npm, a).readme
    /\ EntryOf(mergeOut, b).readme = EntryOf(mergeIn.github, b).readme
    /\ EntryOf(mergeOut, b).readme # EntryOf(mergeIn.npm, b).readme
    /\ Len(EntryOf(mergeOut, a).tags) <
         Len(EntryOf(mergeIn.github, a).tags) + Len(EntryOf(mergeIn.npm, a).tags)

\* The merged set of a discover call whose branches have settled (line 82).
Merged(r) ==
  LET settled == SettledBranches(r.githubThrew, r.githubServers, r.npmThrew, r.npmServers)
  IN DeduplicateAndMerge(settled.github, settled.npm)

\* Position p of a list comes before position q in the ranking: higher
\* popularity, or the same popularity and earlier in the list.
RanksBefore(list, p, q) ==
  \/ list[p].popularity > list[q].popularity
  \/ list[p].popularity = list[q].popularity /\ p < q
RankOf(list, q) == 1 + Cardinality({p \in 1..Len(list) : RanksBefore(list, p, q)})
StableRanking(list, n) ==
  [i \in 1..Min(n, Len(list)) |->
     list[CHOOSE q \in 1..Len(list) : RankOf(list, q) = i]]

\* C13: the list a cache-missing discover returns is the merged set in order
\* of non-increasing popularity, entries of equal popularity in their merged
\* order, cut to its first maxResults entries; its length is the smaller of
\* maxResults and the size of the merged set.
C13_RankedStep ==
  \A j \in JobRefs :
    (run[j].pc = "cacheSet" /\ run'[j].pc = "done" /\ run'[j].disc.kind = "resolved")
    => /\ run'[j].disc.value =
            StableRanking(Merged(run[j]), run[j].options.maxResults)
       /\ Len(run'[j].disc.value) =
            Min(run[j].options.maxResults, Len(Merged(run[j])))
       /\ jobs'[j].results = run'[j].disc.value

C13_RankedAndLimited == [][C13_RankedStep]_vars

C13_Witness ==
  \E j \in JobRefs :
    /\ jobs[j].status = "completed" /\ ~run[j].hit /\ run[j].pc = "done"
    /\ Len(jobs[j].results) = 2
    /\ jobs[j].results[1].popularity = jobs[j].results[2].popularity
    /\ jobs[j].results[1].source = "github" /\ jobs[j].results[2].source = "npm"

\* The content fields an upsert of the entry writes to its catalog row.
RowHolds(row, server) ==
  /\ row.popularity = server.popularity
  /\ row.tags = server.tags
  /\ row.readme = server.readme

\* C14: whichever upserts of the persist step fail, every entry of the ranked
\* list gets its upsert (a failed one does not stop the later ones), the list
\* is not changed by the persist step, and discover goes on to the cache
\* write and resolves with the list ranked from the branch results alone.
C14_AllAttempted ==
  \A j \in JobRefs :
    /\ run[j].pc = "save" => run[j].idx \in 1..Len(run[j].sorted)
    /\ run[j].pc = "cacheSet" => run[j].idx = Len(run[j].sorted) + 1

C14_SaveStep ==
  \A j \in JobRefs :
    /\ (run[j].pc = "save" /\ run'[j] # run[j]) =>
         /\ run'[j].pc \in {"save", "cacheSet"}
         /\ run'[j].idx = run[j].idx + 1
         /\ run'[j].sorted = run[j].sorted
         /\ run'[j].disc = Unsettled
         /\ jobs'[j] = jobs[j]
         /\ \/ catalog' = catalog
            \/ /\ run[j].sorted[run[j].idx].id \in DOMAIN catalog'
               /\ RowHolds(catalog'[run[j].sorted[run[j].idx].id],
                           run[j].sorted[run[j].idx])
               /\ \A id \in DOMAIN catalog :
                    id # run[j].sorted[run[j].idx].id => catalog'[id] = catalog[id]
    /\ (run[j].pc = "cacheSet" /\ run'[j].pc = "done" /\ cache' # cache) =>
         run'[j].disc =
           Resolved(RankAndLimit(Merged(run[j]), run[j].options.maxResults))

C14_PersistFailuresTolerated == [](C14_AllAttempted) /\ [][C14_SaveStep]_vars

C14_Witness ==
  \E j \in JobRefs :
    /\ jobs[j].status = "completed" /\ ~run[j].hit
    /\ Len(jobs[j].results) = 2
    /\ jobs[j].results[1].id \notin DOMAIN catalog
    /\ jobs[j].results[2].id \in DOMAIN catalog

\* C15: the catalog holds one row per identity, stored under that identity,
\* and a row changes only by an upsert of an entry with its identity, after
\* which its content fields are that entry's: so each row shows the most
\* recent upsert for its identity, whichever job made it.
C15_OneRowPerIdentity ==
  \A id \in DOMAIN catalog : catalog[id].id = id

C15_RowStep ==
  /\ \A j \in JobRefs :
       (run[j].pc = "save" /\ run'[j].savedCount = run[j].savedCount + 1) =>
          /\ run[j].sorted[run[j].idx].id \in DOMAIN catalog'
          /\ RowHolds(catalog'[run[j].sorted[run[j].idx].id], run[j].sorted[run[j].idx])
  /\ \A id \in DOMAIN catalog' :
       \/ id \in DOMAIN catalog /\ catalog'[id] = catalog[id]
       \/ \E j \in JobRefs :
            /\ run[j].pc = "save" /\ run'[j].savedCount = run[j].savedCount + 1
            /\ run[j].sorted[run[j].idx].id = id
  /\ DOMAIN catalog \subseteq DOMAIN catalog'

C15_CatalogShowsLatestUpsert ==
  [](C15_OneRowPerIdentity) /\ [][C15_RowStep]_vars

C15_Witness ==
  \E j, k \in JobRefs, id \in DOMAIN catalog :
    /\ jobs[j].status = "completed" /\ jobs[k].status = "completed"
    /\ jobs[j].results # <<>> /\ jobs[k].results # <<>>
    /\ jobs[j].results[1].id = id /\ jobs[k].results[1].id = id
    /\ jobs[j].results[1].popularity < jobs[k].results[1].popularity
    /\ jobs[j].completedAt = jobs[k].completedAt
    /\ RowHolds(catalog[id], jobs[j].results[1])

\* C18: downloadFile sends one request, for the main branch, or two, the
\* second for the master branch and only after the first failed; it returns
\* the content of the first request that succeeded and throws only when both
\* failed.
C18_TwoAttempts ==
  call.op = "downloadFile" =>
    LET sent == call.requests
    IN /\ Len(sent) \in {1, 2}
       /\ sent[1].url = "main"
       /\ Len(sent) = 2 <=> sent[1].response.status # 200
       /\ Len(sent) = 2 => sent[2].url = "master"
       /\ call.outcome.kind = "resolved" <=> sent[Len(sent)].response.status = 200
       /\ call.outcome.kind = "resolved" =>
            call.outcome.value = <<"content", sent[Len(sent)].url>>
       /\ call.outcome.kind = "rejected" <=>
            \A i \in 1..Len(sent) : sent[i].response.status # 200
       /\ call.outcome.kind = "rejected" =>
            call.outcome.error.message = <<"Failed to download file: ", "acme/a/package.json">>

C18_Witness ==
  /\ call.op = "downloadFile"
  /\ Len(call.requests) = 2
  /\ call.outcome = Resolved(<<"content", "master">>)

\* The responses of the last call that carried rate-limit headers.
WithHeaders(sent) == SelectSeq(sent, LAMBDA q : q.response.remaining # "")

\* C19 (as claimed): after an API call whose response carried rate-limit
\* headers, whether it succeeded or failed, the tracked remaining and reset values are
\* those of the latest such response, and getRateLimitStatus and
\* canMakeRequest answer from them.
C19_TracksEveryResponseAsClaimed ==
  (call.op \in ClientOps \ {"downloadFile"} /\ WithHeaders(call.requests) # <<>>) =>
    LET latest == Last(WithHeaders(call.requests)).response
    IN /\ githubClient.rateLimitRemaining = ParseInt(latest.remaining)
       /\ githubClient.rateLimitReset = ParseInt(latest.reset)
       /\ GetRateLimitStatus(githubClient).remaining = ParseInt(latest.remaining)
       /\ CanMakeRequest(githubClient) <=> ParseInt(latest.remaining) > 0

\* C20 (as claimed): when the response that makes a client operation fail is
\* a 403 with a zero remaining header, the error the caller gets differs from
\* the error the same operation throws for another failure.
RateLimited(response) == response.status = 403 /\ response.remaining = "0"

C20_RateLimitDistinctAsClaimed ==
  (/\ call.op \in ClientOps
   /\ call.outcome.kind = "rejected"
   /\ RateLimited(Last(call.requests).response))
  => call.outcome.error #
       ClientOp(call.op, NewClient, NotFound, NotFound).outcome.error

\* C16: for a repository whose metadata reports fewer than 5 stars,
\* analyzeRepository returns null (no server) after the metadata request
\* alone: it sends no download and no directory-listing request.
C16_LowStarsOneRequest ==
  (/\ call.op = "analyzeRepository"
   /\ call.answers.meta.status = 200
   /\ call.answers.stars < 5)
  => /\ call.outcome = Resolved(<<>>)
     /\ call.requests = <<Sent("repos", call.answers.meta)>>

C16_Witness ==
  /\ call.op = "analyzeRepository"
  /\ call.answers.meta.status = 200 /\ call.answers.stars = 4
  /\ call.answers.mcp /\ call.answers.raw.status = 200
  /\ Len(call.requests) = 1
  /\ call.outcome = Resolved(<<>>)

\* The candidates of a searchGitHub call: the items that pass the star and
\* fork filter, the first maxResults of them.
Candidates(items, options) ==
  LET passing == {i \in 1..Len(items) :
                    /\ items[i].stars >= options.minStars
                    /\ options.includeForks \/ items[i].forks <= items[i].stars * 2}
  IN {i \in passing : Cardinality({k \in passing : k < i}) < options.maxResults}

Analysable(repo) == repo.fetchOk /\ repo.stars >= 5 /\ repo.mcp

\* C17: searchGitHub does not throw; a candidate whose analysis fails (its
\* metadata request failing included) gives no entry, and every other
\* candidate that can be analysed still has its entry in the result, in the
\* order of the candidates.
C17_BatchSurvivesFailure ==
  call.op = "searchGitHub" =>
    LET found == call.outcome.value
        good == {i \in Candidates(call.items, call.options) : Analysable(call.items[i])}
    IN /\ call.outcome.kind = "resolved"
       /\ Len(found) = Cardinality(good)
       /\ \A i \in good :
            found[1 + Cardinality({k \in good : k < i})].id =
              <<call.items[i].owner, "/", call.items[i].name>>

C17_Witness ==
  /\ call.op = "searchGitHub"
  /\ Len(call.items) = 2
  /\ ~call.items[1].fetchOk /\ call.items[1].stars >= 5 /\ call.items[1].mcp
  /\ Candidates(call.items, call.options) = {1, 2}
  /\ Len(call.outcome.value) = 1
  /\ call.outcome.value[1].id = <<call.items[2].owner, "/", call.items[2].name>>


(***************************************************************************)
(* The registry branch and the package score.                              *)
(***************************************************************************)
\* The entries of a searchNpm outcome that carry the identity of a package.
EntriesOf(outcome, packageName) ==
  {i \in 1..Len(outcome.value) : outcome.value[i].id = <<"npm:", packageName>>}

\* C21: every analysis of a searchNpm call has a confidence in [0, 1] (here
\* 0..1000 thousandths), its verdict isMCP is true exactly when the
\* confidence is at least 0.3, the call emits exactly one entry for a
\* package whose verdict is true and none for any other, and a package whose
\* analysis failed has confidence 0 and no entry.
C21_VerdictAndEmission ==
  (call.op = "searchNpm" /\ call.searchOk) =>
    /\ Len(call.analyses) = Len(call.packages)
    /\ \A i \in 1..Len(call.packages) :
         LET pkg == call.packages[i]
             analysis == call.analyses[i]
             entries == EntriesOf(call.outcome, pkg.packageName)
         IN /\ analysis.packageName = pkg.packageName
            /\ analysis.confidence \in 0..1000
            /\ analysis.isMCP <=> analysis.confidence >= 300
            /\ Cardinality(entries) = IF analysis.isMCP THEN 1 ELSE 0
            /\ ~pkg.infoOk => analysis.confidence = 0 /\ entries = {}
    /\ Len(call.outcome.value)
         = Cardinality({i \in 1..Len(call.analyses) : call.analyses[i].isMCP})

\* A call that analysed a package at exactly 0.3, which it emitted, and a
\* package whose analysis failed, which it did not.
C21_Witness ==
  /\ call.op = "searchNpm" /\ call.searchOk
  /\ \E i, k \in 1..Len(call.packages) :
       /\ call.analyses[i].confidence = 300
       /\ EntriesOf(call.outcome, call.packages[i].packageName) # {}
       /\ ~call.packages[k].infoOk
       /\ EntriesOf(call.outcome, call.packages[k].packageName) = {}


\* The score the claim states for a package, in tenths of a point: the
\* additive terms, the factor 0.7 once for a package that is not recently
\* maintained, then the bonus for the package's download count.
ClaimedScore(pkg) ==
  LET KeywordMatches(k) == LowerIncludes(k, Mcp) \/ LowerIncludes(k, ModelContextProtocol)
      DepMatches(d) == LowerIncludes(d, AtModelContextProtocol) \/ LowerIncludes(d, Mcp)
      mcpKeywords == Len(SelectSeq(pkg.versionKeywords \o pkg.packageKeywords, KeywordMatches))
      mcpDeps == Cardinality({d \in pkg.dependencies : DepMatches(d)})
      additive ==
        (IF LowerIncludes(pkg.packageName, Mcp) THEN 250 ELSE 0)
        + (IF LowerIncludes(pkg.packageName, Model) /\ LowerIncludes(pkg.packageName, Context)
             THEN 150 ELSE 0)
        + Min(250, 100 * mcpKeywords)
        + (IF LowerIncludes(pkg.description, Mcp)
              \/ LowerIncludes(pkg.description, ModelContextProtocol) THEN 200
           ELSE IF LowerIncludes(pkg.description, ModelContext) THEN 100 ELSE 0)
        + Min(150, 80 * mcpDeps)
        + (IF ExtractGitHubUrl(pkg) # "" THEN 50 ELSE 0)
      penalised == IF pkg.recent THEN additive ELSE (additive * 7) \div 10
      downloads == DownloadStats(pkg)
  IN penalised + (IF downloads > 1000 THEN 50 ELSE IF downloads > 100 THEN 20 ELSE 0)

\* C22: the confidence of every analysed package is min(score, 100) / 100
\* for the score built from the name, keyword, description, dependency and
\* repository terms, the staleness factor 0.7 applied once, and then the
\* download bonus (5 above 1000 downloads, 2 above 100).
C22_ScoreAsClaimed ==
  (call.op = "searchNpm" /\ call.searchOk) =>
    \A i \in 1..Len(call.packages) :
      call.packages[i].infoOk =>
        call.analyses[i].confidence = Min(ClaimedScore(call.packages[i]), 1000)



\* The identities of a list of entries, in order.
IdsOf(list) == [i \in 1..Len(list) |-> list[i].id]

\* C23: in the end-to-end scenario a discovery that returns, returns exactly
\* one entry, the repository acme/fs-mcp; the registry package is not in the
\* result.
C23_OnlyRepositoryEntryAsClaimed ==
  \A j \in JobRefs :
    jobs[j].status = "completed" => IdsOf(jobs[j].results) = << <<"acme", "/", "fs-mcp">> >>

\* C23 as amended: the discovery returns two entries, the repository
\* acme/fs-mcp and the registry package npm:fs-mcp-server, ranked by
\* popularity (stars against downloads, the repository first on a tie), and
\* both are handed to the catalog.
C23_ScenarioResult ==
  \A j \in JobRefs :
    /\ jobs[j].status = "completed" =>
         /\ Len(jobs[j].results) = 2
         /\ {jobs[j].results[i].id : i \in 1..2}
              = { <<"acme", "/", "fs-mcp">>, <<"npm:", "fs-mcp-server">> }
         /\ jobs[j].results[1].popularity >= jobs[j].results[2].popularity
         /\ jobs[j].results[1].popularity = jobs[j].results[2].popularity
              => jobs[j].results[1].source = "github"
    /\ run[j].pc \in {"save", "cacheSet"} =>
         /\ IdsOf(run[j].npmServers) = << <<"npm:", "fs-mcp-server">> >>
         /\ Len(run[j].sorted) = 2
    /\ DOMAIN catalog \subseteq { <<"acme", "/", "fs-mcp">>, <<"npm:", "fs-mcp-server">> }
    /\ (run[j].pc = "cacheSet" /\ run[j].savedCount = 2) =>
         DOMAIN catalog = { <<"acme", "/", "fs-mcp">>, <<"npm:", "fs-mcp-server">> }

\* The scenario has run to completion with the package not recently
\* maintained (score 45 * 0.7 = 31.5) and without downloads: the package is
\* second in the result and in the catalog.
C23_Witness ==
  \E j \in JobRefs :
    /\ jobs[j].status = "completed"
    /\ IdsOf(jobs[j].results) = << <<"acme", "/", "fs-mcp">>, <<"npm:", "fs-mcp-server">> >>
    /\ jobs[j].results[2].popularity = 0
    /\ <<"npm:", "fs-mcp-server">> \in DOMAIN catalog


\* URLs that do not name a repository on github.com.
BadUrls == {"https://gitlab.com/acme/a", "https://github.com/acme"}

\* C24: an analyzeRepository(url) call with a URL that does not match the
\* github.com/<owner>/<repo> pattern rejects with the invalid-URL error and
\* does no I/O: it sends no Redis command and no GitHub request, and leaves
\* the cache, the Redis client and the GitHub client as they were.
C24_BadUrlStep ==
  (call' # call /\ call'.op = "analyzeSingle" /\ call'.url \in BadUrls) =>
    /\ call'.outcome.kind = "rejected"
    /\ call'.outcome.error.message
         = <<"Failed to analyze repository: ", "Error", ": ",
             "Invalid GitHub repository URL">>
    /\ call'.io = <<>>
    /\ cache' = cache /\ redisClient' = redisClient /\ githubClient' = githubClient
Provenance(row) ==
  [verified |-> row.verified, source |-> row.source, sourceUrl |-> row.sourceUrl,
   packageName |-> row.packageName]

\* C26: no entry that discovery produces, ranks or returns is verified, and
\* no step of a discovery changes the verified flag, the source kind, the
\* source URL or the package name of a row the catalog already holds.
C26_NoneVerified ==
  \A j \in JobRefs :
    /\ \A i \in 1..Len(run[j].githubServers) : ~run[j].githubServers[i].verified
    /\ \A i \in 1..Len(run[j].npmServers) : ~run[j].npmServers[i].verified
    /\ \A i \in 1..Len(run[j].sorted) : ~run[j].sorted[i].verified
    /\ \A i \in 1..Len(jobs[j].results) : ~jobs[j].results[i].verified
C26_ProvenanceStep ==
  \A id \in DOMAIN catalog :
    /\ id \in DOMAIN catalog'
    /\ Provenance(catalog'[id]) = Provenance(catalog[id])
C26_ProvenanceKept == [](C26_NoneVerified) /\ [][C26_ProvenanceStep]_vars

\* A discovery found acme/a with 50 stars and saved it onto the verified
\* row entered by hand: the row has the new popularity and its old
\* provenance, next to a row the same discovery created.
C26_Witness ==
  \E j \in JobRefs :
    /\ jobs[j].status = "completed" /\ Len(jobs[j].results) = 2
    /\ jobs[j].results[1].id = <<"acme", "/", "a">>
    /\ catalog[<<"acme", "/", "a">>].popularity = 50
    /\ catalog[<<"acme", "/", "a">>].verified
    /\ catalog[<<"acme", "/", "a">>].source = "manual"
    /\ jobs[j].results[2].id \in DOMAIN catalog
    /\ ~catalog[jobs[j].results[2].id].verified


BothThrew(r) == r.githubThrew /\ r.npmThrew

\* C27: when both search branches failed, discover resolves with the empty
\* list, the cache holds the empty list under the request's key until the
\* TTL has passed, and the job is completed with no results.
C27_BothFailedResolvesAsClaimed ==
  [][\A j \in JobRefs :
       (run[j].pc = "cacheSet" /\ BothThrew(run[j]) /\ run'[j].pc = "done") =>
          /\ run'[j].disc = Resolved(<<>>)
          /\ CacheKey(run[j].options) \in DOMAIN cache'
          /\ jobs'[j].status = "completed" /\ jobs'[j].results = <<>>]_vars

\* C27 as amended: when both search branches failed, discover has nothing to
\* save and writes the empty list to the cache.  When that write succeeds,
\* discover resolves with the empty list, the cache holds the empty list
\* under the request's key for the full TTL and the job is completed with no
\* results; when it fails, discover rejects with the wrapped cache error, the
\* job is failed and the cache is as before.  A later discover with the same
\* key whose cache read answers inside the TTL returns the empty list
\* without a provider call, and its job is completed with no results.
C27_NothingToSave ==
  \A j \in JobRefs :
    (run[j].pc \in {"save", "cacheSet"} /\ BothThrew(run[j])) =>
      run[j].pc = "cacheSet" /\ run[j].sorted = <<>>

C27_EmptyCachedStep ==
  \A j \in JobRefs :
    LET key == CacheKey(run[j].options)
    IN /\ (run[j].pc = "cacheSet" /\ BothThrew(run[j]) /\ run'[j].pc = "done") =>
            /\ catalog' = catalog
            /\ \/ /\ run'[j].disc = Resolved(<<>>)
                  /\ jobs'[j].status = "completed" /\ jobs'[j].results = <<>>
                  /\ key \in DOMAIN cache'
                  /\ JSONParse(cache'[key].value) = <<>>
                  /\ cache'[key].expiresAt = now + 3600 * 1000
               \/ /\ run'[j].disc = Rejected(WrapDiscoverError(RedisSetError))
                  /\ jobs'[j].status = "failed" /\ jobs'[j].results = <<>>
                  /\ cache' = cache
       /\ (/\ run[j].pc = "cacheGet" /\ run'[j].pc # "cacheGet"
           /\ CacheHolds(key) /\ JSONParse(cache[key].value) = <<>>
           /\ run'[j].disc.error # RedisGetError) =>
            /\ run'[j].pc = "done" /\ run'[j].disc = Resolved(<<>>)
            /\ run'[j].providerCalls = 0
            /\ jobs'[j].status = "completed" /\ jobs'[j].results = <<>>

C27_BothFailedEmptyCached == [](C27_NothingToSave) /\ [][C27_EmptyCachedStep]_vars

\* During the outage one job has completed with no results after its two
\* provider calls, and a later job with the same key was answered from the
\* cache, with no provider call, while the first list was still cached.
C27_Witness ==
  \E j, k \in JobRefs :
    /\ jobs[k].status = "completed" /\ jobs[k].results = <<>>
    /\ ~run[k].hit /\ run[k].providerCalls = 2
    /\ jobs[j].status = "completed" /\ jobs[j].results = <<>>
    /\ run[j].hit /\ run[j].providerCalls = 0
    /\ CacheKey(run[j].options) = CacheKey(run[k].options)
    /\ CacheHolds(CacheKey(run[j].options))


\* Two requests with the same query, maxResults and minimum popularity.
SameRequest(o, p) ==
  o.query = p.query /\ o.maxResults = p.maxResults /\ o.minStars = p.minStars

\* C28: when an earlier discover has resolved with a list it computed, a
\* discover with the same query, maxResults and minimum popularity whose
\* cache read answers before the TTL of that list has passed returns that
\* list (as read back from the cache) and makes no provider call, whatever
\* its includeForks says.
C28_SharedKeyStep ==
  \A j, k \in JobRefs :
    (/\ k # j /\ run[k].pc = "done" /\ run[k].disc.kind = "resolved" /\ ~run[k].hit
     /\ SameRequest(run[j].options, run[k].options)
     /\ now < jobs[k].completedAt + 3600 * 1000
     /\ run[j].pc = "cacheGet" /\ run'[j].pc # "cacheGet"
     /\ run'[j].disc.error # RedisGetError)
    => /\ run'[j].pc = "done"
       /\ run'[j].disc = Resolved(JSONParse(JSONStringify(run[k].disc.value)))
       /\ run'[j].providerCalls = 0
       /\ jobs'[j].results = run'[j].disc.value
C28_ForksNotInKey == [][C28_SharedKeyStep]_vars

\* A discover that excludes fork-heavy repositories has returned, from the
\* cache, the list of an earlier discover that included them: acme/b, with
\* 20 forks on 8 stars, is in its results.
C28_Witness ==
  \E j, k \in JobRefs :
    /\ run[k].options.includeForks /\ ~run[j].options.includeForks
    /\ SameRequest(run[j].options, run[k].options)
    /\ ~run[k].hit /\ run[j].hit
    /\ jobs[j].status = "completed" /\ jobs[j].results # <<>>
    /\ jobs[j].results[1].id = <<"acme", "/", "b">>
    /\ jobs[k].results # <<>> /\ jobs[k].results[1].id = <<"acme", "/", "b">>


\* The entries of a ranked list that the catalog holds as the list has them.
Persisted(list) ==
  {i \in 1..Len(list) : list[i].id \in DOMAIN catalog /\ RowHolds(catalog[list[i].id], list[i])}

\* C29: when discover reaches its final cache write, every upsert that
\* succeeded has its row in the catalog; when the write then fails, discover
\* rejects with the wrapped cache error, the job is failed with that message
\* and without results, and the catalog keeps every row.
C29_SavedBeforeCacheWrite ==
  \A j \in JobRefs :
    run[j].pc = "cacheSet" => Cardinality(Persisted(run[j].sorted)) >= run[j].savedCount
C29_FailedWriteStep ==
  \A j \in JobRefs :
    (run[j].pc = "cacheSet" /\ run'[j].pc = "done" /\ cache' = cache
     /\ CacheKey(run[j].options) \notin DOMAIN cache) =>
       /\ run'[j].disc.kind = "rejected"
       /\ run'[j].disc.error.message
            = <<"Failed to discover MCP servers: ", "Error", ": ", "The client is closed">>
       /\ jobs'[j].status = "failed" /\ jobs'[j].results = <<>>
       /\ jobs'[j].error = run'[j].disc.error.message
       /\ catalog' = catalog
C29_CacheWriteFailureKeepsRows ==
  [](C29_SavedBeforeCacheWrite) /\ [][C29_FailedWriteStep]_vars

\* A job has failed on the cache write after both of its entries were saved:
\* the two rows are in the catalog and nothing is cached.
C29_Witness ==
  \E j \in JobRefs :
    /\ jobs[j].status = "failed"
    /\ jobs[j].error = <<"Failed to discover MCP servers: ", "Error", ": ",
                         "The client is closed">>
    /\ Cardinality(DOMAIN catalog) = 2
    /\ cache = <<>>


(***************************************************************************)
(* createConfig and updateConfig.                                          *)
(***************************************************************************)
StoreSecretFailed(op) ==
  /\ op.kind = "create"
  /\ op.outcome.kind = "rejected"
  /\ op.outcome.error.message[1] = "Failed to securely store secret: "

\* C25, as claimed: a createConfig call in which storing a secret fails
\* rejects with 'Failed to securely store secret: <key>' and leaves the
\* datastore as it was before the call: no configuration record is created.
C25_NoRecordStep ==
  (/\ Len(configOps') = Len(configOps) + 1
   /\ StoreSecretFailed(configOps'[Len(configOps')]))
  => userConfigs' = userConfigs
C25_NoRecordAsClaimed == [][C25_NoRecordStep]_vars

UpdatesOf(configId) ==
  {o \in 1..Len(configOps) : configOps[o].kind = "update" /\ configOps[o].configId = configId}
SuccessfulUpdates(configId) ==
  {o \in UpdatesOf(configId) : configOps[o].outcome.kind = "resolved"}
SnapshotsOf(configId) ==
  {i \in 1..Len(configVersions) : configVersions[i].configId = configId}

\* C30, as claimed: once the concurrent updateConfig calls on a configuration
\* have all returned, its version has grown by exactly the number of
\* successful updates, the stored snapshots carry pairwise distinct versions,
\* and every version an update produced has its snapshot.
C30_VersionsAsClaimed ==
  \A id \in DOMAIN userConfigs :
    (\A o \in UpdatesOf(id) : configOps[o].pc = "done")
    => /\ userConfigs[id].version = 1 + Cardinality(SuccessfulUpdates(id))
       /\ \A i, k \in SnapshotsOf(id) :
            configVersions[i].version = configVersions[k].version => i = k
       /\ \A o \in SuccessfulUpdates(id) :
            \E i \in SnapshotsOf(id) : configVersions[i].version = configOps[o].version

=============================================================================
